---- MODULE Spec2Model ----
(***************************************************************************)
(* Verification model of the trading-indicator core:                       *)
(*   - StrategyTracker (edge detector)      src/src/utils/strategyTracker.ts*)
(*   - FileLogger                           src/unnamed/part_002            *)
(*   - Scalping / Intraday evaluators       src/src/components/             *)
(*                                              IntradayStrategy.tsx        *)
(*   - StrategyConditionsManager            src/unnamed/part_001            *)
(*   - indicator worker and its CVD store   src/unnamed/part_000            *)
(*                                                                         *)
(* Numbers: prices, volumes and indicator values are integers; the         *)
(* fractional configuration fields (multipliers, percentages) are kept in  *)
(* hundredths, and every comparison is cross-multiplied so that it is the  *)
(* exact comparison of the source's real-valued expressions.               *)
(***************************************************************************)
EXTENDS Integers, Sequences, FiniteSets, TLC

VARIABLES
    state,          \* StrategyTracker.state: symbol -> strategy -> entry
    logs,           \* FileLogger.logs
    calls,          \* history: per (symbol, strategy), the updateConditions calls
    conditions,     \* StrategyConditionsManager.conditions: symbol -> kind -> config
    savedSignals,   \* the signals handed to signalPersistence.saveSignal, in order
    evals,          \* history: per (symbol, strategy), the evaluations (renders)
    lastEval,       \* history: the inputs and the output of the latest evaluator call
    managerCall,    \* history: the latest call of the conditions manager and its outcome
    cvdHistory,     \* worker: symbol -> CVD series
    priceHistory,      \* per symbol, the price history the worker is sent
    volumeHistory,     \* per symbol, the volume history the worker is sent
    cvdTicks,       \* history: per symbol, every point pushed and the tick it came from
    extendedByOne,  \* history: per symbol, every message so far extended the last by one sample
    nMessages,      \* history: per symbol, the messages the worker has handled
    lastReturn,     \* the value the worker's last updateCVD call returned
    lastStats,      \* the CVD slope and trend the worker's last message computed
    calc,           \* an indicator function's arguments and, once applied, its result
    now,            \* the clock read by Date.now(), in steps of TimeStep milliseconds
    timerDue,       \* the clock value at which the cleanup timer is next due
    snapshotHistory,\* IndicatorHistoryService.history: symbol -> snapshots (timestamps)
    lastGet,        \* history: the latest getHistory call, its time and what it returned
    nAdded,         \* history: the addSnapshot calls made
    cleanupTimer,   \* IndicatorHistoryService.cleanupTimer: whether the interval is set
    logged,         \* history: the entries held after the last load or clear and every
                    \* entry handed to log since
    storedLogs,     \* localStorage 'trading_logs': whether it is present and the array stored
    pendingEffects, \* the passive effects React has queued and not yet run, in order
    ws,             \* BinanceWebSocketService.ws: the index in sockets of the socket, 0 for null
    sockets,        \* every WebSocket constructed so far, by its state
    reconnectAttempts,  \* BinanceWebSocketService.reconnectAttempts
    timers,         \* the pending setTimeout callbacks of handleReconnect, by their delay
    subscribers,    \* BinanceWebSocketService.subscribers, in insertion order
    lastDataReceived,   \* the keys of BinanceWebSocketService.lastDataReceived
    messageReceiveTime, \* the keys of BinanceWebSocketService.messageReceiveTime
    dataGapTimer,   \* whether the gap-detection interval is running
    disconnected,   \* history: disconnect() has been called
    attemptsSinceOpen,  \* history: connect() calls made by reconnect timers since the last open
    unsubscribed,   \* history: the keys unsubscribed and not subscribed again since
    lastEvent       \* history: the latest handler of the socket service and what it did

vars == <<state, logs, calls, conditions, savedSignals, evals, lastEval, managerCall,
          cvdHistory, priceHistory, volumeHistory, cvdTicks, extendedByOne, nMessages,
          lastReturn, lastStats, calc, now, timerDue, snapshotHistory, lastGet, nAdded,
          cleanupTimer, logged, storedLogs, pendingEffects, ws, sockets, reconnectAttempts, timers, subscribers, lastDataReceived,
          messageReceiveTime, dataGapTimer, disconnected, attemptsSinceOpen, unsubscribed,
          lastEvent>>

trackerVars == <<state, logs, calls, logged, storedLogs, pendingEffects>>
strategyVars == <<conditions, savedSignals, evals, lastEval, managerCall>>
cvdVars == <<cvdHistory, priceHistory, volumeHistory, cvdTicks, extendedByOne, nMessages,
             lastReturn, lastStats>>
indicatorVars == <<calc>>
serviceVars == <<now, timerDue, snapshotHistory, lastGet, nAdded, cleanupTimer>>
socketVars == <<ws, sockets, reconnectAttempts, timers, subscribers, lastDataReceived,
                messageReceiveTime, dataGapTimer, disconnected, attemptsSinceOpen,
                unsubscribed, lastEvent>>

(***************************************************************************)
(* Bounds of the model and the inputs it enumerates.                       *)
(***************************************************************************)
Symbols == {"BTCUSDT", "ETHUSDT"}
Strategies == {"scalping", "intraday"}
Pairs == Symbols \X Strategies

\* updateConditions calls made in one behaviour of the tracker
MaxCalls == 5

(***************************************************************************)
(* Generic helpers.                                                        *)
(***************************************************************************)
Last(s) == s[Len(s)]

\* JavaScript Array.prototype.slice(-n) for n > 0: the last n elements
SliceLast(s, n) == IF Len(s) <= n THEN s ELSE SubSeq(s, Len(s) - n + 1, Len(s))

\* a JavaScript object used as a map: a function whose DOMAIN is its keys
Has(obj, key) == key \in DOMAIN obj
Put(obj, key, val) == [k \in (DOMAIN obj) \cup {key} |-> IF k = key THEN val ELSE obj[k]]
EmptyObj == [k \in {} |-> 0]

(***************************************************************************)
(* FileLogger (src/unnamed/part_002).  An entry keeps the level and the    *)
(* message; the message of logAllGreen is kept as its two interpolated     *)
(* parts.  Timestamps are not modelled.                                    *)
(***************************************************************************)
maxLogs == 1000

toUpperCase(strategy) ==
    CASE strategy = "scalping" -> "SCALPING"
      [] strategy = "intraday" -> "INTRADAY"
      [] strategy = "pump" -> "PUMP"
      [] strategy = "btcusdt" -> "BTCUSDT"
      [] strategy = "ethusdt" -> "ETHUSDT"
      [] OTHER -> strategy

\* the data argument of a log call: left out, a plain object, or an object that
\* JSON.stringify rejects (one that refers to itself)
undefined == "undefined"
LogData == {undefined, "plain", "circular"}

\* lines 14-19: the entry; JSON keeps no field for data that is undefined
LogEntry(level, message, data) ==
    IF data = undefined
    THEN [level |-> level, message |-> message]
    ELSE [level |-> level, message |-> message, data |-> data]

\* FileLogger.log keeping the oldest maxLogs entries instead of the most recent
logKeepOldest(lg, level, message, data) ==
    LET pushed == Append(lg, LogEntry(level, message, data))
    IN  IF Len(pushed) > maxLogs THEN SubSeq(pushed, 1, maxLogs) ELSE pushed

\* FileLogger.log lines 21-26: push, then keep only the most recent maxLogs entries
log(lg, level, message, data) ==
    LET pushed == Append(lg, LogEntry(level, message, data))
    IN  IF Len(pushed) > maxLogs THEN SliceLast(pushed, maxLogs) ELSE pushed

\* FileLogger.log line 29: JSON.stringify(this.logs) throws a TypeError when an
\* entry's data cannot be serialised; nothing catches it
setItemThrows(lg) ==
    \E i \in 1..Len(lg) : "data" \in DOMAIN lg[i] /\ lg[i].data = "circular"

\* FileLogger.log line 29: what localStorage holds under 'trading_logs' after the call
NoStoredLogs == [present |-> FALSE]
StoredLogs(lg) == [present |-> TRUE, entries |-> lg]

logStored(lg, held) == IF setItemThrows(lg) THEN held ELSE StoredLogs(lg)

info(lg, message, data) == log(lg, "INFO", message, data)

AllGreenMessage(strategy, symbol) ==
    [strategy |-> toUpperCase(strategy), text |-> "All green", symbol |-> symbol]

logAllGreen(lg, strategy, symbol) == info(lg, AllGreenMessage(strategy, symbol), undefined)

(***************************************************************************)
(* StrategyTracker (src/src/utils/strategyTracker.ts).  A condition vector *)
(* (StrategyConditions) is a sequence of [key, value] entries in the       *)
(* object's insertion order, which is the order Object.values walks.       *)
(***************************************************************************)
NoConditions == << >>

\* Object.values(conditions).every(Boolean)
AllGreen(conds) == \A i \in 1..Len(conds) : conds[i].value

\* lines 22-30: the entry of (symbol, strategy) is created when missing
InitEntry == [previousAllGreen |-> FALSE, currentConditions |-> NoConditions]

EnsureEntry(st, symbol, strategy) ==
    LET withSymbol == IF Has(st, symbol) THEN st ELSE Put(st, symbol, EmptyObj)
    IN  IF Has(withSymbol[symbol], strategy)
        THEN withSymbol
        ELSE Put(withSymbol, symbol, Put(withSymbol[symbol], strategy, InitEntry))

\* line 36: the transition from not-all-green to all-green
TransitionToAllGreen(allGreen, previousAllGreen) == allGreen /\ ~previousAllGreen

\* lines 40-42: the entry written back
UpdatedEntrySticky(entry, allGreen, conds) ==
    [previousAllGreen |-> entry.previousAllGreen \/ allGreen, currentConditions |-> conds]

UpdatedEntry(entry, allGreen, conds) ==
    [previousAllGreen |-> allGreen, currentConditions |-> conds]

\* updateConditions: the log after the call; the entry is pushed before log can throw
updateConditionsLogs(st, lg, symbol, strategy, conds) ==
    LET entry == EnsureEntry(st, symbol, strategy)[symbol][strategy]
    IN  IF TransitionToAllGreen(AllGreen(conds), entry.previousAllGreen)
        THEN logAllGreen(lg, strategy, symbol)
        ELSE lg

\* updateConditions: whether the call ends in the exception of fileLogger.logAllGreen
\* (line 37), which leaves lines 41-42 unexecuted
updateConditionsThrows(st, lg, symbol, strategy, conds) ==
    LET entry == EnsureEntry(st, symbol, strategy)[symbol][strategy]
    IN  /\ TransitionToAllGreen(AllGreen(conds), entry.previousAllGreen)
        /\ setItemThrows(logAllGreen(lg, strategy, symbol))

\* updateConditions: what localStorage holds under 'trading_logs' after the call
updateConditionsStored(st, lg, held, symbol, strategy, conds) ==
    LET entry == EnsureEntry(st, symbol, strategy)[symbol][strategy]
    IN  IF TransitionToAllGreen(AllGreen(conds), entry.previousAllGreen)
        THEN logStored(logAllGreen(lg, strategy, symbol), held)
        ELSE held

\* updateConditions: the tracker state after the call
updateConditionsStateWholeSymbol(st, lg, symbol, strategy, conds) ==
    LET ensured == EnsureEntry(st, symbol, strategy)
        entry == ensured[symbol][strategy]
    IN  IF updateConditionsThrows(st, lg, symbol, strategy, conds)
        THEN ensured
        ELSE Put(ensured, symbol,
                 [k \in DOMAIN ensured[symbol] |->
                     UpdatedEntry(entry, AllGreen(conds), conds)])

updateConditionsState(st, lg, symbol, strategy, conds) ==
    LET ensured == EnsureEntry(st, symbol, strategy)
        entry == ensured[symbol][strategy]
    IN  IF updateConditionsThrows(st, lg, symbol, strategy, conds)
        THEN ensured
        ELSE Put(ensured, symbol,
                 Put(ensured[symbol], strategy,
                     UpdatedEntry(entry, AllGreen(conds), conds)))

\* updateConditions: the entries handed to the logger so far, after the call
updateConditionsLogged(st, lgd, symbol, strategy, conds) ==
    LET entry == EnsureEntry(st, symbol, strategy)[symbol][strategy]
    IN  IF TransitionToAllGreen(AllGreen(conds), entry.previousAllGreen)
        THEN [lgd EXCEPT !.all = Append(@, [level |-> "INFO",
                                            message |-> AllGreenMessage(strategy, symbol)])]
        ELSE lgd

\* isAllGreen: state[symbol]?.[strategy]?.previousAllGreen || false
isAllGreen(st, symbol, strategy) ==
    IF Has(st, symbol) /\ Has(st[symbol], strategy)
    THEN st[symbol][strategy].previousAllGreen
    ELSE FALSE

\* getConditions: state[symbol]?.[strategy]?.currentConditions || {}
getConditions(st, symbol, strategy) ==
    IF Has(st, symbol) /\ Has(st[symbol], strategy)
    THEN st[symbol][strategy].currentConditions
    ELSE NoConditions

(***************************************************************************)
(* The tracker on its own: any caller, any condition vector.               *)
(***************************************************************************)
ConditionKeys == <<"rsi", "movingAverages", "bollingerBands", "macd", "volume", "cvd">>

\* a six-entry vector whose values are TRUE except at the keys in falseKeys
VectorWithFalse(falseKeys) ==
    [i \in 1..Len(ConditionKeys) |->
        [key |-> ConditionKeys[i], value |-> ConditionKeys[i] \notin falseKeys]]

TrackerInputs ==
    {NoConditions, VectorWithFalse({}), VectorWithFalse({"rsi"})}

RECURSIVE Sum(_, _)
Sum(f, dom) ==
    IF dom = {} THEN 0
    ELSE LET x == CHOOSE y \in dom : TRUE
         IN  f[x] + Sum(f, dom \ {x})

RECURSIVE SumLen(_, _)
SumLen(f, dom) ==
    IF dom = {} THEN 0
    ELSE LET x == CHOOSE y \in dom : TRUE
         IN  Len(f[x]) + SumLen(f, dom \ {x})

InitTracker ==
    /\ state = EmptyObj
    /\ logs = << >>
    /\ calls = [p \in Pairs |-> << >>]
    /\ logged = [loaded |-> 0, all |-> << >>, steps |-> 0]
    /\ storedLogs = NoStoredLogs
    /\ pendingEffects = << >>

InitStrategy ==
    /\ conditions = EmptyObj
    /\ savedSignals = << >>
    /\ evals = [p \in Pairs |-> << >>]
    /\ lastEval = [strategy |-> "none"]
    /\ managerCall = [op |-> "none"]

InitCvd ==
    /\ cvdHistory = EmptyObj
    /\ priceHistory = [s \in Symbols |-> << >>]
    /\ volumeHistory = [s \in Symbols |-> << >>]
    /\ cvdTicks = [s \in Symbols |-> << >>]
    /\ extendedByOne = [s \in Symbols |-> TRUE]
    /\ nMessages = [s \in Symbols |-> 0]
    /\ lastReturn = 0
    /\ lastStats = [trend |-> "none"]

(***************************************************************************)
(* IndicatorHistoryService (src/src/services/indicatorHistoryService.ts).  *)
(* Date.now() advances in steps of TimeStep milliseconds.                  *)
(***************************************************************************)
TimeStep == 5 * 1000
maxHistorySeconds == 60
cleanupInterval == 10000

InitService ==
    /\ now = 0
    /\ timerDue = cleanupInterval
    /\ snapshotHistory = EmptyObj
    /\ lastGet = [symbol |-> "none"]
    /\ nAdded = 0
    /\ cleanupTimer = TRUE

InitIndicators == calc = [fn |-> "none"]

(***************************************************************************)
(* BinanceWebSocketService (src/unnamed/part_003).  A WebSocket is         *)
(* "connecting", "open", "closing" (close() was called on it) or "closed"  *)
(* (its close event was delivered).  A stream name is kept as its parts    *)
(* around '@'.  The two timestamp maps are kept by their keys.  A callback *)
(* either returns or throws.                                               *)
(***************************************************************************)
maxReconnectAttempts == 5

\* handleReconnect without the limit on the attempts
handleReconnectUnlimited(attempts, pending) ==
    [reconnectAttempts |-> attempts + 1,
     timers |-> Append(pending, (2 ^ (attempts + 1)) * 1000)]

\* handleReconnect: the counter and the pending timers after the call
handleReconnect(attempts, pending) ==
    IF attempts < maxReconnectAttempts
    THEN [reconnectAttempts |-> attempts + 1,
          timers |-> Append(pending, (2 ^ (attempts + 1)) * 1000)]
    ELSE [reconnectAttempts |-> attempts, timers |-> pending]

\* Map.prototype.set: an existing key keeps its place, a new key goes last
mapSet(subs, key, callback) ==
    IF \E i \in 1..Len(subs) : subs[i].key = key
    THEN [i \in 1..Len(subs) |->
             IF subs[i].key = key THEN [key |-> key, callback |-> callback] ELSE subs[i]]
    ELSE Append(subs, [key |-> key, callback |-> callback])

\* Map.prototype.delete
mapDelete(subs, key) ==
    LET keep(entry) == entry.key # key
    IN  SelectSeq(subs, keep)

\* handleMessage line 112
Matches(subscriberKey, symbol) == subscriberKey = symbol \/ subscriberKey = "all"

\* handleMessage lines 111-121: subscribers.forEach calls the matching callbacks in
\* insertion order; a callback that throws ends the forEach
RECURSIVE forEachSubscriber(_, _, _)
forEachSubscriber(subs, symbol, i) ==
    IF i > Len(subs) THEN [invoked |-> << >>, threw |-> FALSE]
    ELSE IF ~Matches(subs[i].key, symbol) THEN forEachSubscriber(subs, symbol, i + 1)
    ELSE IF subs[i].callback.throws THEN [invoked |-> <<subs[i]>>, threw |-> TRUE]
    ELSE LET rest == forEachSubscriber(subs, symbol, i + 1)
         IN  [invoked |-> <<subs[i]>> \o rest.invoked, threw |-> rest.threw]

\* the constructor: connect() made a WebSocket, startGapDetection() set the interval
InitSocket ==
    /\ sockets = <<"connecting">>
    /\ ws = 1
    /\ reconnectAttempts = 0
    /\ timers = << >>
    /\ subscribers = << >>
    /\ lastDataReceived = {}
    /\ messageReceiveTime = {}
    /\ dataGapTimer = TRUE
    /\ disconnected = FALSE
    /\ attemptsSinceOpen = 0
    /\ unsubscribed = {}
    /\ lastEvent = [kind |-> "construct"]

Init ==
    /\ InitTracker
    /\ InitStrategy
    /\ InitCvd
    /\ InitIndicators
    /\ InitService
    /\ InitSocket

\* strategyTracker.updateConditions(symbol, strategy, conds): what the call writes
TrackerCall(symbol, strategy, conds) ==
    /\ state' = updateConditionsState(state, logs, symbol, strategy, conds)
    /\ logs' = updateConditionsLogs(state, logs, symbol, strategy, conds)
    /\ storedLogs' = updateConditionsStored(state, logs, storedLogs, symbol, strategy, conds)
    /\ logged' = updateConditionsLogged(state, logged, symbol, strategy, conds)
    /\ calls' = [calls EXCEPT ![<<symbol, strategy>>] =
                    Append(@, [agg |-> AllGreen(conds),
                               fired |-> logged'.all # logged.all,
                               threw |-> updateConditionsThrows(state, logs, symbol,
                                                                strategy, conds)])]

\* strategyTracker.updateConditions(symbol, strategy, conds)
UpdateConditions(symbol, strategy, conds) ==
    /\ SumLen(calls, Pairs) < MaxCalls
    /\ TrackerCall(symbol, strategy, conds)
    /\ UNCHANGED pendingEffects
    /\ UNCHANGED <<strategyVars, cvdVars, indicatorVars, serviceVars, socketVars>>

Levels == {"INFO", "WARN", "ERROR"}

\* calls of the logger's methods and of updateConditions in one behaviour of the logger
MaxLoggerSteps == 3

LoggerSteps == logged.steps + SumLen(calls, Pairs)

\* fileLogger.info / warn / error (message, data): each is log(level, message, data)
LogCall(level, data) ==
    /\ LoggerSteps < MaxLoggerSteps
    /\ LET message == [text |-> "call", n |-> Len(logged.all) + 1]
       IN  /\ logs' = log(logs, level, message, data)
           /\ storedLogs' = logStored(logs', storedLogs)
           /\ logged' = [logged EXCEPT !.all = Append(@, LogEntry(level, message, data)),
                                       !.steps = @ + 1]
    /\ UNCHANGED <<state, calls, pendingEffects>>
    /\ UNCHANGED <<strategyVars, cvdVars, indicatorVars, serviceVars, socketVars>>

\* strategyTracker.isAllGreen(symbol, strategy): a read, nothing is written
IsAllGreen(symbol, strategy) ==
    /\ isAllGreen(state, symbol, strategy) \in BOOLEAN
    /\ UNCHANGED vars

\* strategyTracker.getConditions(symbol, strategy): a read, nothing is written
GetConditions(symbol, strategy) ==
    /\ Len(getConditions(state, symbol, strategy)) >= 0
    /\ UNCHANGED vars

\* another caller of the logger hands it data that cannot be serialised; log calls
\* with other data leave the tracker as it is, and while the array holds one such
\* entry every setItem throws, so one is enough
LogUnserialisable ==
    /\ ~setItemThrows(logs)
    /\ LogCall("ERROR", "circular")

\* the tracker's methods, and a caller of the logger it writes to
NextTracker ==
    \/ \E symbol \in Symbols, strategy \in Strategies :
        \/ \E conds \in TrackerInputs : UpdateConditions(symbol, strategy, conds)
        \/ IsAllGreen(symbol, strategy)
        \/ GetConditions(symbol, strategy)
    \/ LogUnserialisable

SpecTracker == Init /\ [][NextTracker]_vars

(***************************************************************************)
(* StrategyConditionsManager (src/unnamed/part_001).  Fractional fields    *)
(* are in hundredths: volumeMultiplier 1.5 is 150, takeProfitPercent 0.5   *)
(* is 50.                                                                  *)
(***************************************************************************)
DEFAULT_SCALPING_CONDITIONS ==
    [volumeMultiplier |-> 150, rsiMin |-> 0, rsiMax |-> 40,
     useMA5 |-> FALSE, useMA8 |-> TRUE, useMA13 |-> FALSE, useMA20 |-> FALSE,
     useMA21 |-> TRUE, useMA34 |-> FALSE, useMA50 |-> FALSE,
     macdLineAboveSignal |-> TRUE, macdLineAboveZero |-> FALSE,
     bollingerMultiplier |-> 101, useBollingerUpper |-> FALSE,
     useBollingerLower |-> TRUE, useBollingerMiddle |-> FALSE,
     cvdAboveZero |-> FALSE, cvdSlopePositive |-> TRUE, cvdLookbackCandles |-> 5,
     takeProfitPercent |-> 50, stopLossPercent |-> 25]

DEFAULT_INTRADAY_CONDITIONS ==
    [volumeMultiplier |-> 120, rsiMin |-> 35, rsiMax |-> 65,
     useMA5 |-> FALSE, useMA8 |-> FALSE, useMA13 |-> FALSE, useMA20 |-> TRUE,
     useMA21 |-> FALSE, useMA34 |-> TRUE, useMA50 |-> FALSE,
     macdLineAboveSignal |-> TRUE, macdLineAboveZero |-> FALSE,
     bollingerMultiplier |-> 101, useBollingerUpper |-> FALSE,
     useBollingerLower |-> TRUE, useBollingerMiddle |-> FALSE,
     cvdAboveZero |-> TRUE, cvdSlopePositive |-> TRUE, cvdLookbackCandles |-> 10,
     takeProfitPercent |-> 200, stopLossPercent |-> 100]

DEFAULT_PUMP_CONDITIONS ==
    [volumeMultiplier |-> 200, rsiMin |-> 50, rsiMax |-> 85,
     useMA5 |-> TRUE, useMA8 |-> FALSE, useMA13 |-> TRUE, useMA20 |-> FALSE,
     useMA21 |-> FALSE, useMA34 |-> FALSE, useMA50 |-> FALSE,
     macdLineAboveSignal |-> TRUE, macdLineAboveZero |-> TRUE,
     bollingerMultiplier |-> 100, useBollingerUpper |-> FALSE,
     useBollingerLower |-> FALSE, useBollingerMiddle |-> TRUE,
     cvdAboveZero |-> TRUE, cvdSlopePositive |-> TRUE, cvdLookbackCandles |-> 5,
     takeProfitPercent |-> 300, stopLossPercent |-> 100]

\* initializeSymbol: the three defaults are copied under the symbol
initializeSymbol(cs, symbol) ==
    Put(cs, symbol, [scalping |-> DEFAULT_SCALPING_CONDITIONS,
                     intraday |-> DEFAULT_INTRADAY_CONDITIONS,
                     pump |-> DEFAULT_PUMP_CONDITIONS])

\* getConditions of the manager: its map after the call (first access initialises)
managerAfterGet(cs, symbol) ==
    IF Has(cs, symbol) THEN cs ELSE initializeSymbol(cs, symbol)

\* getConditions of the manager: the config returned
managerGetConditions(cs, symbol, strategy) == managerAfterGet(cs, symbol)[symbol][strategy]

(***************************************************************************)
(* The evaluators (src/src/components/IntradayStrategy.tsx).  An indicator *)
(* snapshot is a record of integers, so `x || 0` is x.  takeProfit and     *)
(* stopLoss are in 1/10000 of the price unit:                              *)
(*   entryPrice * (1 + percent / 100) * 10000 = entryPrice * (10000 + p),  *)
(* p the percentage in hundredths.                                         *)
(***************************************************************************)
bollingerRuleAlways(config, indicators, currentPrice) ==
    currentPrice * 100 <= indicators.bollingerLower * config.bollingerMultiplier

bollingerRule(config, indicators, currentPrice) ==
    IF config.useBollingerLower
    THEN currentPrice * 100 <= indicators.bollingerLower * config.bollingerMultiplier
    ELSE TRUE

macdRuleZeroAlways(config, indicators) ==
    IF config.macdLineAboveSignal
    THEN indicators.macd.line > indicators.macd.signal /\ indicators.macd.line > 0
    ELSE TRUE

macdRule(config, indicators) ==
    IF config.macdLineAboveSignal
    THEN IF config.macdLineAboveZero
         THEN indicators.macd.line > indicators.macd.signal /\ indicators.macd.line > 0
         ELSE indicators.macd.line > indicators.macd.signal
    ELSE TRUE

rsiRule(config, indicators) ==
    indicators.rsi >= config.rsiMin /\ indicators.rsi <= config.rsiMax

volumeRule(config, indicators) ==
    indicators.volume * 100 > indicators.avgVolume * config.volumeMultiplier

cvdRuleValueOnly(config, indicators) ==
    IF config.cvdSlopePositive
    THEN IF config.cvdAboveZero
         THEN indicators.cvd > 0
         ELSE indicators.cvdSlope > 0
    ELSE TRUE

cvdRule(config, indicators) ==
    IF config.cvdSlopePositive
    THEN IF config.cvdAboveZero
         THEN indicators.cvdSlope > 0 /\ indicators.cvd > 0
         ELSE indicators.cvdSlope > 0
    ELSE TRUE

intradayMaRuleAlways(config, indicators, currentPrice) ==
    currentPrice > indicators.ma34 /\ indicators.ma20 > indicators.ma34

intradayMaRule(config, indicators, currentPrice) ==
    IF config.useMA20 /\ config.useMA34
    THEN currentPrice > indicators.ma34 /\ indicators.ma20 > indicators.ma34
    ELSE TRUE

scalpingMaRuleEitherFlag(config, indicators) ==
    IF config.useMA8 \/ config.useMA21
    THEN indicators.ma8 > indicators.ma21
    ELSE TRUE

scalpingMaRule(config, indicators) ==
    IF config.useMA8 /\ config.useMA21
    THEN indicators.ma8 > indicators.ma21
    ELSE TRUE

Entry(key, value) == [key |-> key, value |-> value]

StrategyResultSwapped(currentPrice, config, conds) ==
    [entryPrice |-> currentPrice,
     takeProfit |-> currentPrice * (10000 + config.stopLossPercent),
     stopLoss |-> currentPrice * (10000 - config.takeProfitPercent),
     conditions |-> conds,
     allConditionsMet |-> AllGreen(conds),
     signal |-> IF AllGreen(conds) THEN "LONG" ELSE "WAIT"]

StrategyResult(currentPrice, config, conds) ==
    [entryPrice |-> currentPrice,
     takeProfit |-> currentPrice * (10000 + config.takeProfitPercent),
     stopLoss |-> currentPrice * (10000 - config.stopLossPercent),
     conditions |-> conds,
     allConditionsMet |-> AllGreen(conds),
     signal |-> IF AllGreen(conds) THEN "LONG" ELSE "WAIT"]

checkIntradayConditions(config, indicators, currentPrice) ==
    StrategyResult(currentPrice, config,
        <<Entry("bollingerBands", bollingerRule(config, indicators, currentPrice)),
          Entry("macd", macdRule(config, indicators)),
          Entry("rsi", rsiRule(config, indicators)),
          Entry("movingAverages", intradayMaRule(config, indicators, currentPrice)),
          Entry("volume", volumeRule(config, indicators)),
          Entry("cvd", cvdRule(config, indicators))>>)

checkScalpingConditions(config, indicators, currentPrice) ==
    StrategyResult(currentPrice, config,
        <<Entry("rsi", rsiRule(config, indicators)),
          Entry("movingAverages", scalpingMaRule(config, indicators)),
          Entry("bollingerBands", bollingerRule(config, indicators, currentPrice)),
          Entry("macd", macdRule(config, indicators)),
          Entry("volume", volumeRule(config, indicators)),
          Entry("cvd", cvdRule(config, indicators))>>)

\* the indicator values copied into a Signal (the intraday copy has no cvdSlope)
intradaySignalIndicators(indicators, currentPrice) ==
    [rsi |-> indicators.rsi, macd |-> indicators.macd,
     ma5 |-> indicators.ma5, ma8 |-> indicators.ma8, ma13 |-> indicators.ma13,
     ma20 |-> indicators.ma20, ma21 |-> indicators.ma21, ma34 |-> indicators.ma34,
     ma50 |-> indicators.ma50,
     bollingerUpper |-> indicators.bollingerUpper,
     bollingerLower |-> indicators.bollingerLower,
     currentPrice |-> currentPrice, volume |-> indicators.volume,
     volumeSpike |-> indicators.volumeSpike,
     cvd |-> indicators.cvd, cvdTrend |-> indicators.cvdTrend]

scalpingSignalIndicators(indicators, currentPrice) ==
    [rsi |-> indicators.rsi, macd |-> indicators.macd,
     ma5 |-> indicators.ma5, ma8 |-> indicators.ma8, ma13 |-> indicators.ma13,
     ma20 |-> indicators.ma20, ma21 |-> indicators.ma21, ma34 |-> indicators.ma34,
     ma50 |-> indicators.ma50,
     bollingerUpper |-> indicators.bollingerUpper,
     bollingerLower |-> indicators.bollingerLower,
     currentPrice |-> currentPrice, volume |-> indicators.volume,
     volumeSpike |-> indicators.volumeSpike,
     cvd |-> indicators.cvd, cvdTrend |-> indicators.cvdTrend,
     cvdSlope |-> indicators.cvdSlope]

\* the Signal object built before saveSignal (id and timestamp, which come
\* from Date.now(), are left out)
Signal(symbol, strategy, result, indicatorCopy) ==
    [symbol |-> symbol, strategy |-> strategy, signal |-> result.signal,
     entryPrice |-> result.entryPrice, takeProfit |-> result.takeProfit,
     stopLoss |-> result.stopLoss, indicators |-> indicatorCopy,
     conditions |-> result.conditions, active |-> TRUE]

\* `if (strategy.allConditionsMet) { ... signalPersistence.saveSignal(signal) }`
saveIfMet(signals, symbol, strategy, result, indicatorCopy) ==
    IF result.allConditionsMet
    THEN Append(signals, Signal(symbol, strategy, result, indicatorCopy))
    ELSE signals

(***************************************************************************)
(* The two strategy components.  One render is one evaluation.  The render *)
(* body of ScalpingStrategy registers a passive effect (its dependency     *)
(* strategy.conditions is a new object on every render); React runs the    *)
(* queued effects later, in the order they were registered, and never runs *)
(* the effect of a render it does not commit.                              *)
(***************************************************************************)
\* renders made in one behaviour of the components
MaxEvals == 4

\* indicator snapshots handed to the components
Snapshot(rsi, volume) ==
    [rsi |-> rsi,
     macd |-> [macd |-> 2, signal |-> 8, line |-> 10],
     ma5 |-> 101, ma8 |-> 101, ma13 |-> 100, ma20 |-> 99, ma21 |-> 99,
     ma34 |-> 98, ma50 |-> 97,
     bollingerUpper |-> 104, bollingerLower |-> 100, bollingerMiddle |-> 102,
     volume |-> volume, avgVolume |-> 10, volumeSpike |-> FALSE,
     cvd |-> 5, cvdTrend |-> "bullish", cvdSlope |-> 1]

Snapshots == {Snapshot(rsi, volume) : rsi \in {30, 38, 70}, volume \in {13, 20}}

SnapshotPrices == {100}

\* IntradayStrategy with indicators: evaluate, save the signal if all met
RenderIntraday(symbol, indicators, currentPrice) ==
    LET config == managerGetConditions(conditions, symbol, "intraday")
        strategy == checkIntradayConditions(config, indicators, currentPrice)
    IN  /\ SumLen(evals, Pairs) < MaxEvals
        /\ conditions' = managerAfterGet(conditions, symbol)
        /\ savedSignals' = saveIfMet(savedSignals, symbol, "intraday", strategy,
                                   intradaySignalIndicators(indicators, currentPrice))
        /\ evals' = [evals EXCEPT ![<<symbol, "intraday">>] =
                        Append(@, [agg |-> strategy.allConditionsMet,
                                   saved |-> savedSignals' # savedSignals])]
        /\ managerCall' = [op |-> "get", symbol |-> symbol, strategy |-> "intraday",
                           stored |-> Has(conditions, symbol),
                           outcome |-> [kind |-> "returns", config |-> config]]
        /\ lastEval' = [strategy |-> "intraday", config |-> config,
                        indicators |-> indicators, currentPrice |-> currentPrice,
                        result |-> strategy]
        /\ UNCHANGED <<trackerVars, cvdVars, indicatorVars, serviceVars, socketVars>>

\* ScalpingStrategy with indicators: evaluate, register the effect that reports
\* the condition vector to the tracker, save the signal if all met
RenderScalping(symbol, indicators, currentPrice) ==
    LET config == managerGetConditions(conditions, symbol, "scalping")
        strategy == checkScalpingConditions(config, indicators, currentPrice)
    IN  /\ SumLen(evals, Pairs) < MaxEvals
        /\ conditions' = managerAfterGet(conditions, symbol)
        /\ savedSignals' = saveIfMet(savedSignals, symbol, "scalping", strategy,
                                   scalpingSignalIndicators(indicators, currentPrice))
        /\ evals' = [evals EXCEPT ![<<symbol, "scalping">>] =
                        Append(@, [agg |-> strategy.allConditionsMet,
                                   saved |-> savedSignals' # savedSignals])]
        /\ managerCall' = [op |-> "get", symbol |-> symbol, strategy |-> "scalping",
                           stored |-> Has(conditions, symbol),
                           outcome |-> [kind |-> "returns", config |-> config]]
        /\ lastEval' = [strategy |-> "scalping", config |-> config,
                        indicators |-> indicators, currentPrice |-> currentPrice,
                        result |-> strategy]
        /\ pendingEffects' = Append(pendingEffects,
                                    [symbol |-> symbol, conditions |-> strategy.conditions])
        /\ UNCHANGED <<state, logs, calls, logged, storedLogs>>
        /\ UNCHANGED <<cvdVars, indicatorVars, serviceVars, socketVars>>

\* lines 444-446: React runs the oldest queued effect of ScalpingStrategy
EffectScalping ==
    /\ pendingEffects # << >>
    /\ TrackerCall(Head(pendingEffects).symbol, "scalping", Head(pendingEffects).conditions)
    /\ pendingEffects' = Tail(pendingEffects)
    /\ UNCHANGED <<strategyVars, cvdVars, indicatorVars, serviceVars, socketVars>>

\* React discards the latest render without committing it: its effect never runs
RenderDiscarded ==
    /\ pendingEffects # << >>
    /\ pendingEffects' = SubSeq(pendingEffects, 1, Len(pendingEffects) - 1)
    /\ UNCHANGED <<state, logs, calls, logged, storedLogs>>
    /\ UNCHANGED <<strategyVars, cvdVars, indicatorVars, serviceVars, socketVars>>

\* either component without indicators: the early return, before anything is read
RenderLoading(symbol, strategy) ==
    /\ strategy \in Strategies
    /\ UNCHANGED vars

NextStrategy ==
    \/ \E symbol \in Symbols :
        \/ \E indicators \in Snapshots, currentPrice \in SnapshotPrices :
              RenderIntraday(symbol, indicators, currentPrice)
        \/ \E indicators \in Snapshots, currentPrice \in SnapshotPrices :
              RenderScalping(symbol, indicators, currentPrice)
        \/ \E strategy \in Strategies : RenderLoading(symbol, strategy)
    \/ EffectScalping
    \/ RenderDiscarded

SpecStrategy == Init /\ [][NextStrategy]_vars

(***************************************************************************)
(* The indicator worker's CVD store (src/unnamed/part_000).  Sequences are *)
(* 1-based here: the source's priceData[i] is priceData[i + 1].            *)
(***************************************************************************)
maxHistoryLength == 100

Min(a, b) == IF a <= b THEN a ELSE b

\* lines 133-137 and 150-154: the signed volume of one price comparison
signedVolumeUnsigned(prevPrice, currentPrice, volume) ==
    IF currentPrice # prevPrice THEN volume ELSE 0

signedVolumeFlipped(prevPrice, currentPrice, volume) ==
    IF currentPrice > prevPrice THEN 0 - volume
    ELSE IF currentPrice < prevPrice THEN volume
    ELSE 0

signedVolumeEqualAsRise(prevPrice, currentPrice, volume) ==
    IF currentPrice >= prevPrice THEN volume ELSE 0 - volume

signedVolume(prevPrice, currentPrice, volume) ==
    IF currentPrice > prevPrice THEN volume
    ELSE IF currentPrice < prevPrice THEN 0 - volume
    ELSE 0

\* lines 127-140: the first-time loop over the source's i in from..to, with
\* runningCVD = base before it; the points it pushes.  (The range is halved
\* rather than walked, which gives the same points.)
RECURSIVE backfillLoop(_, _, _, _, _)
backfillLoop(priceData, volumeData, from, to, base) ==
    IF from > to THEN << >>
    ELSE IF from = to
    THEN <<base + signedVolume(priceData[from], priceData[from + 1], volumeData[from + 1])>>
    ELSE LET mid == (from + to) \div 2
             left == backfillLoop(priceData, volumeData, from, mid, base)
         IN  left \o backfillLoop(priceData, volumeData, mid + 1, to, Last(left))

backfillCVDFromSecondPair(priceData, volumeData) ==
    <<0>> \o backfillLoop(priceData, volumeData, 2,
                          Min(Len(priceData), Len(volumeData)) - 1, 0)

backfillCVD(priceData, volumeData) ==
    backfillLoop(priceData, volumeData, 1, Min(Len(priceData), Len(volumeData)) - 1, 0)

\* lines 143-156: the latest data point
newCVDStale(cvdValues, priceData, volumeData) ==
    Last(cvdValues)
      + signedVolume(priceData[Len(priceData) - 1], Last(priceData),
                     volumeData[Len(volumeData) - 1])

newCVD(cvdValues, priceData, volumeData) ==
    Last(cvdValues)
      + signedVolume(priceData[Len(priceData) - 1], Last(priceData), Last(volumeData))

\* lines 126-157: the points one call pushes
pushedCVD(cvdValues, priceData, volumeData) ==
    IF Len(cvdValues) = 0
    THEN backfillCVD(priceData, volumeData)
    ELSE <<newCVD(cvdValues, priceData, volumeData)>>

\* lines 160-162: cvdValues.splice(0, cvdValues.length - maxHistoryLength)
trimKeepOldest(cvdValues) ==
    IF Len(cvdValues) > maxHistoryLength
    THEN SubSeq(cvdValues, 1, maxHistoryLength)
    ELSE cvdValues

trim(cvdValues) ==
    IF Len(cvdValues) > maxHistoryLength
    THEN SubSeq(cvdValues, Len(cvdValues) - maxHistoryLength + 1, Len(cvdValues))
    ELSE cvdValues

\* cvdHistory.get(symbol) || []
storedCVDShared(history, symbol) ==
    IF DOMAIN history = {} THEN << >>
    ELSE history[CHOOSE k \in DOMAIN history : \A j \in DOMAIN history : Len(history[j]) <= Len(history[k])]

storedCVD(history, symbol) == IF Has(history, symbol) THEN history[symbol] ELSE << >>

\* line 121: the early return
tooShort(priceData, volumeData) == Len(priceData) < 2 \/ Len(volumeData) < 2

\* updateCVD: the store after the call
updateCVDHistoryRebuild(history, symbol, priceData, volumeData) ==
    IF tooShort(priceData, volumeData)
    THEN history
    ELSE Put(history, symbol, trim(backfillCVD(priceData, volumeData)))

updateCVDHistory(history, symbol, priceData, volumeData) ==
    IF tooShort(priceData, volumeData)
    THEN history
    ELSE LET cvdValues == storedCVD(history, symbol)
         IN  Put(history, symbol,
                 trim(cvdValues \o pushedCVD(cvdValues, priceData, volumeData)))

\* updateCVD: the value returned, cvdValues[cvdValues.length - 1] || 0
updateCVDReturnsLastStored(history, symbol, priceData, volumeData) ==
    IF tooShort(priceData, volumeData)
    THEN (IF Len(storedCVD(history, symbol)) = 0 THEN 0 ELSE Last(storedCVD(history, symbol)))
    ELSE Last(updateCVDHistory(history, symbol, priceData, volumeData)[symbol])

updateCVD(history, symbol, priceData, volumeData) ==
    IF tooShort(priceData, volumeData)
    THEN 0
    ELSE Last(updateCVDHistory(history, symbol, priceData, volumeData)[symbol])

(***************************************************************************)
(* Real-valued results.  A quotient a / b of the source is kept as the     *)
(* exact fraction [num |-> a, den |-> b]; den = 0 stands for a division by *)
(* zero (Infinity or NaN in the source).                                   *)
(***************************************************************************)
Rat(n, d) == [num |-> n, den |-> d]

Abs(x) == IF x < 0 THEN 0 - x ELSE x

\* a > b for fractions with non-zero denominators
RatGreater(a, b) ==
    LET sa == IF a.den < 0 THEN 0 - 1 ELSE 1
        sb == IF b.den < 0 THEN 0 - 1 ELSE 1
    IN  a.num * sa * Abs(b.den) > b.num * sb * Abs(a.den)

RECURSIVE SumSeq(_)
SumSeq(s) == IF Len(s) = 0 THEN 0 ELSE s[1] + SumSeq(Tail(s))

\* calculateCVDSlope(symbol, lookbackPeriod)
calculateCVDSlopeWholeSeries(history, symbol, lookbackPeriod) ==
    LET cvdValues == storedCVD(history, symbol)
    IN  IF Len(cvdValues) < lookbackPeriod + 1 THEN Rat(0, 1)
        ELSE LET recentCVD == SliceLast(cvdValues, lookbackPeriod + 2)
                 n == Len(recentCVD)
                 sumX == SumSeq([i \in 1..n |-> i - 1])
                 sumY == SumSeq(recentCVD)
                 sumXY == SumSeq([i \in 1..n |-> (i - 1) * recentCVD[i]])
                 sumX2 == SumSeq([i \in 1..n |-> (i - 1) * (i - 1)])
             IN  Rat(n * sumXY - sumX * sumY, n * sumX2 - sumX * sumX)

calculateCVDSlope(history, symbol, lookbackPeriod) ==
    LET cvdValues == storedCVD(history, symbol)
    IN  IF Len(cvdValues) < lookbackPeriod + 1 THEN Rat(0, 1)
        ELSE LET recentCVD == SliceLast(cvdValues, lookbackPeriod + 1)
                 n == Len(recentCVD)
                 sumX == SumSeq([i \in 1..n |-> i - 1])
                 sumY == SumSeq(recentCVD)
                 sumXY == SumSeq([i \in 1..n |-> (i - 1) * recentCVD[i]])
                 sumX2 == SumSeq([i \in 1..n |-> (i - 1) * (i - 1)])
             IN  IF n < 2 THEN Rat(0, 1)
                 ELSE Rat(n * sumXY - sumX * sumY, n * sumX2 - sumX * sumX)

\* calculateCVDTrend(symbol, lookbackPeriod); 0.1 is the fraction 1/10
calculateCVDTrendSigned(history, symbol, lookbackPeriod) ==
    LET cvdValues == storedCVD(history, symbol)
    IN  IF Len(cvdValues) < lookbackPeriod THEN "neutral"
        ELSE LET recentCVD == SliceLast(cvdValues, lookbackPeriod)
                 firstValue == recentCVD[1]
                 lastValue == Last(recentCVD)
                 trendStrength == Rat(lastValue - firstValue,
                                      IF firstValue = 0 THEN 1 ELSE firstValue)
             IN  IF RatGreater(trendStrength, Rat(1, 10)) THEN "bullish"
                 ELSE IF RatGreater(Rat(0 - 1, 10), trendStrength) THEN "bearish"
                 ELSE "neutral"

calculateCVDTrend(history, symbol, lookbackPeriod) ==
    LET cvdValues == storedCVD(history, symbol)
    IN  IF Len(cvdValues) < lookbackPeriod THEN "neutral"
        ELSE LET recentCVD == SliceLast(cvdValues, lookbackPeriod)
                 firstValue == recentCVD[1]
                 lastValue == Last(recentCVD)
                 trendStrength == Rat(lastValue - firstValue,
                                      Abs(IF firstValue = 0 THEN 1 ELSE firstValue))
             IN  IF RatGreater(trendStrength, Rat(1, 10)) THEN "bullish"
                 ELSE IF RatGreater(Rat(0 - 1, 10), trendStrength) THEN "bearish"
                 ELSE "neutral"

(***************************************************************************)
(* The worker and the sender of its messages.  The sender (not part of the *)
(* worker's file) keeps a price and a volume history per symbol and sends  *)
(* both with every CALCULATE_INDICATORS message.  It may load a history in *)
(* bulk before its first sample, extend it by one sample and send, send    *)
(* the same history again, or start its history afresh.                    *)
(***************************************************************************)
\* messages handled in one behaviour of the worker
MaxMessages == 3

\* samples a tick may carry
TickPrices == {10, 12}
TickVolumes == {1, 2}

\* the bulk history: prices 12, 12, 11, 10, 12, ... and volumes 2, 3, 1, 2, ...
PatternPrice(i) == CASE i % 4 = 0 -> 10 [] i % 4 = 3 -> 11 [] OTHER -> 12
PatternVolume(i) == 1 + (i % 3)
HistoryLengths == {3, maxHistoryLength, maxHistoryLength + 2}

\* the points a message pushes, each with the tick it was computed from
TicksOf(cvdValues, priceData, volumeData) ==
    LET pushed == pushedCVD(cvdValues, priceData, volumeData)
    IN  IF Len(cvdValues) = 0
        THEN [i \in 1..Len(pushed) |->
                [prevPrice |-> priceData[i], currentPrice |-> priceData[i + 1],
                 volume |-> volumeData[i + 1], value |-> pushed[i]]]
        ELSE <<[prevPrice |-> priceData[Len(priceData) - 1],
                currentPrice |-> Last(priceData),
                volume |-> Last(volumeData), value |-> pushed[1]]>>

\* self.onmessage for a CALCULATE_INDICATORS message carrying (prices, volumes)
OnMessage(symbol, prices, volumes) ==
    /\ Sum(nMessages, Symbols) < MaxMessages
    /\ nMessages' = [nMessages EXCEPT ![symbol] = @ + 1]
    /\ cvdHistory' = updateCVDHistory(cvdHistory, symbol, prices, volumes)
    /\ lastReturn' = updateCVD(cvdHistory, symbol, prices, volumes)
    /\ lastStats' = [symbol |-> symbol,
                     slope |-> calculateCVDSlope(cvdHistory', symbol, 5),
                     trend |-> calculateCVDTrend(cvdHistory', symbol, 10)]
    /\ cvdTicks' = [cvdTicks EXCEPT ![symbol] =
                       IF tooShort(prices, volumes) THEN @
                       ELSE @ \o TicksOf(storedCVD(cvdHistory, symbol), prices, volumes)]

\* the sender loads a history in bulk before its first message for the symbol
LoadHistory(symbol, n) ==
    /\ Sum(nMessages, Symbols) < MaxMessages
    /\ priceHistory[symbol] = << >>
    /\ ~Has(cvdHistory, symbol)
    /\ priceHistory' = [priceHistory EXCEPT ![symbol] = [i \in 1..n |-> PatternPrice(i)]]
    /\ volumeHistory' = [volumeHistory EXCEPT ![symbol] = [i \in 1..n |-> PatternVolume(i)]]
    /\ UNCHANGED <<cvdHistory, cvdTicks, extendedByOne, nMessages, lastReturn, lastStats,
                   trackerVars, strategyVars, indicatorVars, serviceVars, socketVars>>

\* a tick: the sender appends one sample and sends the extended history
Tick(symbol, price, volume) ==
    /\ priceHistory' = [priceHistory EXCEPT ![symbol] = Append(@, price)]
    /\ volumeHistory' = [volumeHistory EXCEPT ![symbol] = Append(@, volume)]
    /\ OnMessage(symbol, priceHistory'[symbol], volumeHistory'[symbol])
    /\ UNCHANGED <<extendedByOne, trackerVars, strategyVars, indicatorVars, serviceVars, socketVars>>

\* the sender sends the history it sent before, not extended
Resend(symbol) ==
    /\ priceHistory[symbol] # << >>
    /\ OnMessage(symbol, priceHistory[symbol], volumeHistory[symbol])
    /\ extendedByOne' = [extendedByOne EXCEPT ![symbol] = FALSE]
    /\ UNCHANGED <<priceHistory, volumeHistory, trackerVars, strategyVars, indicatorVars, serviceVars, socketVars>>

\* the sender starts its history afresh; the worker keeps the symbol's series
ResetHistory(symbol) ==
    /\ Sum(nMessages, Symbols) < MaxMessages
    /\ priceHistory[symbol] # << >>
    /\ Has(cvdHistory, symbol)
    /\ priceHistory' = [priceHistory EXCEPT ![symbol] = << >>]
    /\ volumeHistory' = [volumeHistory EXCEPT ![symbol] = << >>]
    /\ extendedByOne' = [extendedByOne EXCEPT ![symbol] = FALSE]
    /\ UNCHANGED <<cvdHistory, cvdTicks, nMessages, lastReturn, lastStats, trackerVars, strategyVars, indicatorVars, serviceVars, socketVars>>

NextCvd ==
    \E symbol \in Symbols :
        \/ \E n \in HistoryLengths : LoadHistory(symbol, n)
        \/ \E price \in TickPrices, volume \in TickVolumes : Tick(symbol, price, volume)
        \/ Resend(symbol)
        \/ ResetHistory(symbol)

SpecCvd == Init /\ [][NextCvd]_vars

(***************************************************************************)
(* Claims about the tracker (checked under SpecTracker).                   *)
(***************************************************************************)
\* call i of pair p is a false-to-true transition of the aggregate decision
RisingEdge(p, i) == calls[p][i].agg /\ (i = 1 \/ ~calls[p][i - 1].agg)

\* the trigger entries the logger holds for pair p
TriggerEntries(p) ==
    {i \in 1..Len(logs) :
        logs[i] = [level |-> "INFO", message |-> AllGreenMessage(p[2], p[1])]}

\* C1: for every pair, starting from a pair never seen, logAllGreen fires on
\* exactly the calls whose aggregate is true while the previous call's was false
\* (or there was none), so the triggers logged for the pair are as many as the
\* false-to-true transitions of its aggregate.
C1_TriggerExactlyOnRisingEdges ==
    \A p \in Pairs :
        /\ \A i \in 1..Len(calls[p]) : calls[p][i].fired <=> RisingEdge(p, i)
        /\ Cardinality(TriggerEntries(p))
             = Cardinality({i \in 1..Len(calls[p]) : RisingEdge(p, i)})

\* what holds of the triggers: the same, for every pair none of whose calls
\* ended in the logger's exception
TriggerOnRisingEdgesUnlessThrown ==
    \A p \in Pairs :
        (\A i \in 1..Len(calls[p]) : ~calls[p][i].threw) =>
            /\ \A i \in 1..Len(calls[p]) : calls[p][i].fired <=> RisingEdge(p, i)
            /\ Cardinality(TriggerEntries(p))
                 = Cardinality({i \in 1..Len(calls[p]) : RisingEdge(p, i)})

\* C3: a call whose aggregate is false fires no trigger and re-arms the pair:
\* the pair reads not-all-green after it, and the next call of the pair whose
\* aggregate is true fires a trigger.
C3_FalseCallRearms ==
    \A p \in Pairs : \A i \in 1..Len(calls[p]) :
        ~calls[p][i].agg =>
            /\ ~calls[p][i].fired
            /\ i = Len(calls[p]) => ~isAllGreen(state, p[1], p[2])
            /\ (i < Len(calls[p]) /\ calls[p][i + 1].agg) => calls[p][i + 1].fired

\* C3 witness: a pair that triggered, lapsed, and triggered again.
C3_Witness ==
    \E p \in Pairs : \E i \in 1..Len(calls[p]) :
        /\ i + 2 <= Len(calls[p])
        /\ calls[p][i].agg /\ calls[p][i].fired
        /\ ~calls[p][i + 1].agg
        /\ calls[p][i + 2].agg /\ calls[p][i + 2].fired

\* what the tracker holds for one pair
PairView(st, p) ==
    [present |-> Has(st, p[1]) /\ Has(st[p[1]], p[2]),
     previousAllGreen |-> isAllGreen(st, p[1], p[2]),
     currentConditions |-> getConditions(st, p[1], p[2])]

\* C5: the edge state of a pair (previous aggregate and stored vector) changes
\* only in an updateConditions call for that very pair: a call for another pair,
\* isAllGreen and getConditions leave it as it was.
C5_OnlyOwnPairChanges ==
    [][\A p \in Pairs :
          PairView(state', p) # PairView(state, p) => Len(calls'[p]) = Len(calls[p]) + 1]_vars

\* C5 witness: two pairs of one symbol hold different edge states, each set by
\* its own calls.
C5_Witness ==
    \E s \in Symbols :
        /\ Len(calls[<<s, "scalping">>]) >= 1
        /\ Len(calls[<<s, "intraday">>]) >= 2
        /\ isAllGreen(state, s, "scalping")
        /\ ~isAllGreen(state, s, "intraday")
        /\ getConditions(state, s, "scalping") # getConditions(state, s, "intraday")

(***************************************************************************)
(* Claims about the strategy components (checked under SpecStrategy).      *)
(***************************************************************************)
\* C2: over the evaluations of a pair, a Signal is handed to saveSignal on
\* exactly the evaluations whose aggregate is true while the previous one's was
\* false (or there was none): one signal per run of true aggregates.
C2_OneSignalPerRun ==
    \A p \in Pairs : \A i \in 1..Len(evals[p]) :
        evals[p][i].saved <=> (evals[p][i].agg /\ (i = 1 \/ ~evals[p][i - 1].agg))

\* C4: after each evaluation of a pair (scalping or intraday), once the effects
\* of the evaluation have run, isAllGreen of that pair equals the aggregate
\* decision the evaluation computed.
C4_EdgeStateIsLastAggregate ==
    \A p \in Pairs :
        Len(evals[p]) > 0 /\ pendingEffects = << >> =>
            isAllGreen(state, p[1], p[2]) = Last(evals[p]).agg

(***************************************************************************)
(* Claims about the CVD store (checked under SpecCvd).                     *)
(***************************************************************************)
\* the delta rule of the data model, for the tick a point came from
DeltaRule(tick) ==
    CASE tick.currentPrice > tick.prevPrice -> tick.volume
      [] tick.currentPrice < tick.prevPrice -> 0 - tick.volume
      [] OTHER -> 0

\* the tick that produced the i-th stored point of a symbol: the stored points
\* are the most recent ones pushed
TickOfPoint(s, i) == cvdTicks[s][Len(cvdTicks[s]) - Len(cvdHistory[s]) + i]

\* C6: in every reachable state, each pair of adjacent stored points satisfies
\* the delta rule for the tick that produced the later point: plus the volume
\* on a price rise, minus on a fall, unchanged on an equal price.
C6_AdjacentPointsObeyDeltaRule ==
    \A s \in DOMAIN cvdHistory :
        /\ Len(cvdHistory[s]) <= Len(cvdTicks[s])
        /\ \A i \in 2..Len(cvdHistory[s]) :
              cvdHistory[s][i] = cvdHistory[s][i - 1] + DeltaRule(TickOfPoint(s, i))

\* C6 witness: a stored series whose later points came from a rise, a fall and
\* an equal price.
C6_Witness ==
    \E s \in DOMAIN cvdHistory :
        \E i, j, k \in 2..Len(cvdHistory[s]) :
            /\ TickOfPoint(s, i).currentPrice > TickOfPoint(s, i).prevPrice
            /\ TickOfPoint(s, j).currentPrice < TickOfPoint(s, j).prevPrice
            /\ TickOfPoint(s, k).currentPrice = TickOfPoint(s, k).prevPrice
            /\ nMessages[s] >= 2

\* C7: when every message of a symbol carried the history extended by one
\* sample, the stored series equals the series a single first call on the
\* complete history stores.
C7_IncrementalEqualsBackfill ==
    \A s \in DOMAIN cvdHistory :
        extendedByOne[s] =>
            cvdHistory[s]
              = updateCVDHistory(EmptyObj, s, priceHistory[s], volumeHistory[s])[s]

\* C7 witness: a symbol fed from nothing, one sample per call, through the
\* first-time branch and then the append branch, with a non-zero last delta.
C7_Witness ==
    \E s \in DOMAIN cvdHistory :
        /\ extendedByOne[s]
        /\ nMessages[s] = 3
        /\ Len(priceHistory[s]) = 3
        /\ Len(cvdHistory[s]) = 2
        /\ cvdHistory[s][2] # cvdHistory[s][1]

\* C8: every stored series has at most 100 points and is the most recent (at
\* most 100) of the points pushed for the symbol, in the order pushed.
C8_CappedMostRecent ==
    \A s \in DOMAIN cvdHistory :
        /\ Len(cvdHistory[s]) <= 100
        /\ cvdHistory[s]
             = SliceLast([i \in 1..Len(cvdTicks[s]) |-> cvdTicks[s][i].value], 100)

\* C8 witness: more than 101 points were pushed for a symbol, so both a first
\* call and an append (or several appends) evicted.
C8_Witness ==
    \E s \in DOMAIN cvdHistory :
        /\ Len(cvdTicks[s]) > 101
        /\ Len(cvdHistory[s]) = 100
        /\ nMessages[s] >= 2

\* the sum of the signed volumes of the source's pairs from..to of a history
RECURSIVE SignedSum(_, _, _, _)
SignedSum(prices, volumes, from, to) ==
    IF from > to THEN 0
    ELSE IF from = to
    THEN DeltaRule([prevPrice |-> prices[from], currentPrice |-> prices[from + 1],
                    volume |-> volumes[from + 1]])
    ELSE SignedSum(prices, volumes, from, (from + to) \div 2)
           + SignedSum(prices, volumes, (from + to) \div 2 + 1, to)

\* C9: the first call for a symbol with n >= 2 paired samples builds the whole
\* series: it pushes n-1 points, one per consecutive pair, the k-th being the
\* sum of the signed volumes of the first k pairs, that is the (k-1)-th plus
\* the signed volume of pair k (the last 100 are stored).
C9_FirstCallBackfills ==
    [][\A s \in Symbols :
          (~Has(cvdHistory, s) /\ Has(cvdHistory', s)) =>
              LET n == Len(priceHistory'[s])
                  stored == cvdHistory'[s]
                  dropped == (n - 1) - Len(stored)
              IN  /\ n >= 2
                  /\ Len(volumeHistory'[s]) = n
                  /\ Len(cvdTicks'[s]) = n - 1
                  /\ Len(stored) = Min(n - 1, 100)
                  /\ stored[1] = SignedSum(priceHistory'[s], volumeHistory'[s],
                                            1, dropped + 1)
                  /\ \A k \in 2..Len(stored) :
                        stored[k] = stored[k - 1]
                                      + SignedSum(priceHistory'[s], volumeHistory'[s],
                                                  dropped + k, dropped + k)]_vars

\* C9 witness: a first call on four samples stored three points.
C9_Witness ==
    \E s \in DOMAIN cvdHistory :
        /\ nMessages[s] = 1
        /\ Len(priceHistory[s]) = 4
        /\ Len(cvdHistory[s]) = 3
        /\ cvdHistory[s][3] # cvdHistory[s][1]

\* what an append call must leave for symbol s: the old series, then one point
\* made of the old last point and the last two prices and last volume sent,
\* less the oldest point at the cap
AppendedOnePoint(s) ==
    LET prices == priceHistory'[s]
        volumes == volumeHistory'[s]
    IN  /\ Len(prices) >= 2
        /\ Len(volumes) >= 2
        /\ cvdHistory'[s]
             = SliceLast(Append(cvdHistory[s],
                                Last(cvdHistory[s])
                                  + DeltaRule([prevPrice |-> prices[Len(prices) - 1],
                                               currentPrice |-> Last(prices),
                                               volume |-> Last(volumes)])), 100)

\* C10 as claimed: every updateCVD call for a symbol whose series is
\* initialised appends exactly one point, computed from the last two prices,
\* the last volume and the previous last point, and keeps the stored points.
C10_EveryCallAppends ==
    [][\A s \in Symbols :
          (Has(cvdHistory, s) /\ nMessages'[s] = nMessages[s] + 1)
              => AppendedOnePoint(s)]_vars

\* C10 as amended: every updateCVD call with at least 2 prices and 2 volumes
\* for a symbol whose series is initialised appends exactly one such point and
\* keeps the stored points (apart from eviction of the oldest at the cap).
C10_CallWithTwoSamplesAppends ==
    [][\A s \in Symbols :
          (/\ Has(cvdHistory, s)
           /\ nMessages'[s] = nMessages[s] + 1
           /\ Len(priceHistory'[s]) >= 2
           /\ Len(volumeHistory'[s]) >= 2)
              => AppendedOnePoint(s)]_vars

\* C10 witness: an append call changed the last value of a two-point series
\* built one sample per call.
C10_Witness ==
    \E s \in DOMAIN cvdHistory :
        /\ nMessages[s] = 3
        /\ Len(cvdTicks[s]) = 2
        /\ Len(cvdHistory[s]) = 2
        /\ cvdHistory[s][2] = cvdHistory[s][1] + DeltaRule(cvdTicks[s][2])
        /\ DeltaRule(cvdTicks[s][2]) # 0

(***************************************************************************)
(* The first updateCVD call on a given history: the sender holds a short   *)
(* history when the worker starts and sends it whole in its first message  *)
(* for each symbol.                                                        *)
(***************************************************************************)
\* length of the longest history held at the start
ExampleLen == 5
ExamplePrices == {10, 11, 12, 13}
ExampleVolumes == {100}

RECURSIVE SeqsOfLen(_, _)
SeqsOfLen(S, n) ==
    IF n = 0 THEN {<< >>}
    ELSE {Append(q, x) : q \in SeqsOfLen(S, n - 1), x \in S}

ExampleHistories == UNION {SeqsOfLen(ExamplePrices, n) : n \in 1..ExampleLen}

InitFirstCall ==
    /\ InitTracker
    /\ InitStrategy
    /\ InitIndicators
    /\ InitService
    /\ InitSocket
    /\ cvdHistory = EmptyObj
    /\ \E h \in ExampleHistories, volume \in ExampleVolumes :
          /\ priceHistory = [s \in Symbols |-> h]
          /\ volumeHistory = [s \in Symbols |-> [i \in 1..Len(h) |-> volume]]
    /\ cvdTicks = [s \in Symbols |-> << >>]
    /\ extendedByOne = [s \in Symbols |-> TRUE]
    /\ nMessages = [s \in Symbols |-> 0]
    /\ lastReturn = 0
    /\ lastStats = [trend |-> "none"]

\* the first message for a symbol, carrying the whole history held
FirstCall(symbol) ==
    /\ nMessages[symbol] = 0
    /\ OnMessage(symbol, priceHistory[symbol], volumeHistory[symbol])
    /\ UNCHANGED <<priceHistory, volumeHistory, extendedByOne, trackerVars, strategyVars, indicatorVars, serviceVars, socketVars>>

NextFirstCall == \E symbol \in Symbols : FirstCall(symbol)

SpecFirstCall == InitFirstCall /\ [][NextFirstCall]_vars

(***************************************************************************)
(* Claims about the first call (checked under SpecFirstCall).              *)
(***************************************************************************)
\* the symbols whose first call carried the example of the data model
ExampleBuilt ==
    {s \in DOMAIN cvdHistory :
        /\ nMessages[s] = 1
        /\ priceHistory[s] = <<10, 10, 12, 11, 13>>
        /\ volumeHistory[s] = <<100, 100, 100, 100, 100>>}

\* C11 as claimed: for prices [10,10,12,11,13] with volumes of 100 the first
\* updateCVD call builds [0, 0, 100, 0, 100], a leading 0 anchor and one point
\* per price comparison, as long as the input.
C11_ExampleWithAnchor ==
    \A s \in ExampleBuilt :
        /\ cvdHistory[s] = <<0, 0, 100, 0, 100>>
        /\ Len(cvdHistory[s]) = Len(priceHistory[s])

\* C11 as amended: for prices [10,10,12,11,13] with volumes of 100 the first
\* updateCVD call builds [0, 100, 0, 100], one point per price comparison and
\* no anchor, so the series is one shorter than the input.
C11_ExampleWithoutAnchor ==
    \A s \in ExampleBuilt :
        /\ cvdHistory[s] = <<0, 100, 0, 100>>
        /\ Len(cvdHistory[s]) = Len(priceHistory[s]) - 1

\* C11 witness: the first call on the example has been handled.
C11_Witness == ExampleBuilt # {}

(***************************************************************************)
(* Claims about messages of several symbols (checked under SpecCvd).       *)
(***************************************************************************)
\* the store with every symbol but s forgotten
OnlySymbol(history, s) == [k \in DOMAIN history \cap {s} |-> history[k]]

\* C12: for any interleaving of the messages of different symbols, every
\* message handled for a symbol leaves for it the series the same message
\* leaves in a worker that only ever saw that symbol's messages, and leaves
\* the series of every other symbol as it was; so each symbol's series is the
\* one its own messages alone produce, in their order.
C12_SymbolsAreIndependent ==
    [][\A s \in Symbols :
          IF nMessages'[s] = nMessages[s] + 1
          THEN storedCVD(cvdHistory', s)
                 = storedCVD(updateCVDHistory(OnlySymbol(cvdHistory, s), s,
                                              priceHistory'[s], volumeHistory'[s]), s)
          ELSE /\ Has(cvdHistory', s) = Has(cvdHistory, s)
               /\ storedCVD(cvdHistory', s) = storedCVD(cvdHistory, s)]_vars

\* C12 witness: two symbols have series of different lengths, one after two
\* messages and the other after one.
C12_Witness ==
    \E s, u \in DOMAIN cvdHistory :
        /\ s # u
        /\ nMessages[s] = 2
        /\ nMessages[u] = 1
        /\ Len(cvdHistory[s]) # Len(cvdHistory[u])
        /\ Last(cvdHistory[s]) # Last(cvdHistory[u])

(***************************************************************************)
(* The evaluators as functions of (config, indicators, currentPrice): the  *)
(* inputs are drawn at the start and one of the two evaluators is applied. *)
(***************************************************************************)
\* configs an owner can have set: every combination of the optional flags,
\* the moving-average pairs off, half on or on, two pairs of percentages
MaPairings == {"off", "half", "both"}
PercentPairs == {<<50, 25>>, <<200, 100>>}

EvalConfig(bb, macdSignal, macdZero, cvdSlope, cvdZero, ma, pct) ==
    [DEFAULT_SCALPING_CONDITIONS EXCEPT
        !.useBollingerLower = bb,
        !.macdLineAboveSignal = macdSignal, !.macdLineAboveZero = macdZero,
        !.cvdSlopePositive = cvdSlope, !.cvdAboveZero = cvdZero,
        !.useMA8 = (ma # "off"), !.useMA21 = (ma = "both"),
        !.useMA20 = (ma # "off"), !.useMA34 = (ma = "both"),
        !.takeProfitPercent = pct[1], !.stopLossPercent = pct[2]]

EvalConfigs ==
    {EvalConfig(bb, macdSignal, macdZero, cvdSlope, cvdZero, ma, pct) :
        bb \in BOOLEAN, macdSignal \in BOOLEAN, macdZero \in BOOLEAN,
        cvdSlope \in BOOLEAN, cvdZero \in BOOLEAN, ma \in MaPairings,
        pct \in PercentPairs}

\* indicator snapshots: <<line, signal>> of the MACD, <<slope, value>> of the CVD
MacdPairs == {<<10, 8>>, <<-2, -4>>, <<1, 3>>}
CvdPairs == {<<1, 5>>, <<1, -5>>, <<-1, 5>>, <<0, 0>>}

EvalSnapshot(rsi, volume, macd, cvd, bollingerLower, maRising) ==
    [Snapshot(rsi, volume) EXCEPT
        !.macd = [macd |-> macd[1] - macd[2], signal |-> macd[2], line |-> macd[1]],
        !.cvdSlope = cvd[1], !.cvd = cvd[2],
        !.bollingerLower = bollingerLower,
        !.ma8 = IF maRising THEN 101 ELSE 97,
        !.ma20 = IF maRising THEN 99 ELSE 97]

EvalSnapshots ==
    {EvalSnapshot(rsi, volume, macd, cvd, bollingerLower, maRising) :
        rsi \in {30, 70}, volume \in {13, 20}, macd \in MacdPairs, cvd \in CvdPairs,
        bollingerLower \in {98, 100}, maRising \in BOOLEAN}

InitEvaluator ==
    /\ InitTracker
    /\ InitCvd
    /\ InitIndicators
    /\ InitService
    /\ InitSocket
    /\ conditions = EmptyObj
    /\ savedSignals = << >>
    /\ evals = [p \in Pairs |-> << >>]
    /\ managerCall = [op |-> "none"]
    /\ \E config \in EvalConfigs, indicators \in EvalSnapshots,
          currentPrice \in SnapshotPrices :
          lastEval = [strategy |-> "none", config |-> config,
                      indicators |-> indicators, currentPrice |-> currentPrice]

\* checkIntradayConditions() on the inputs drawn
ApplyIntraday ==
    /\ lastEval.strategy = "none"
    /\ lastEval' = [strategy |-> "intraday", config |-> lastEval.config,
                    indicators |-> lastEval.indicators,
                    currentPrice |-> lastEval.currentPrice,
                    result |-> checkIntradayConditions(lastEval.config,
                                   lastEval.indicators, lastEval.currentPrice)]
    /\ UNCHANGED <<conditions, savedSignals, evals, managerCall, trackerVars, cvdVars, indicatorVars, serviceVars, socketVars>>

\* checkScalpingConditions() on the inputs drawn
ApplyScalping ==
    /\ lastEval.strategy = "none"
    /\ lastEval' = [strategy |-> "scalping", config |-> lastEval.config,
                    indicators |-> lastEval.indicators,
                    currentPrice |-> lastEval.currentPrice,
                    result |-> checkScalpingConditions(lastEval.config,
                                   lastEval.indicators, lastEval.currentPrice)]
    /\ UNCHANGED <<conditions, savedSignals, evals, managerCall, trackerVars, cvdVars, indicatorVars, serviceVars, socketVars>>

NextEvaluator == ApplyIntraday \/ ApplyScalping

SpecEvaluator == InitEvaluator /\ [][NextEvaluator]_vars

(***************************************************************************)
(* Claims about the evaluators (checked under SpecEvaluator).              *)
(***************************************************************************)
Evaluated == lastEval.strategy \in Strategies

\* the value the output's condition vector holds under a key
Cond(key) ==
    LET conds == lastEval.result.conditions
    IN  conds[CHOOSE i \in 1..Len(conds) : conds[i].key = key].value

VectorKeys == {lastEval.result.conditions[i].key : i \in 1..Len(lastEval.result.conditions)}

\* the strategy's moving-average pair: MA20 and MA34 (intraday), MA8 and MA21 (scalping)
MaPairOn ==
    IF lastEval.strategy = "intraday"
    THEN lastEval.config.useMA20 /\ lastEval.config.useMA34
    ELSE lastEval.config.useMA8 /\ lastEval.config.useMA21

MaPairOff ==
    IF lastEval.strategy = "intraday"
    THEN ~lastEval.config.useMA20 /\ ~lastEval.config.useMA34
    ELSE ~lastEval.config.useMA8 /\ ~lastEval.config.useMA21

\* C13: in both evaluators every condition whose enabling flag is off is true
\* in the condition vector, and allConditionsMet is the AND of the six
\* condition values.
C13_DisabledAreTrueAndAggregateIsAnd ==
    Evaluated =>
        /\ ~lastEval.config.useBollingerLower => Cond("bollingerBands")
        /\ ~lastEval.config.macdLineAboveSignal => Cond("macd")
        /\ ~lastEval.config.cvdSlopePositive => Cond("cvd")
        /\ ~MaPairOn => Cond("movingAverages")
        /\ Len(lastEval.result.conditions) = 6
        /\ VectorKeys = {"rsi", "movingAverages", "bollingerBands", "macd", "volume", "cvd"}
        /\ lastEval.result.allConditionsMet
             = (/\ Cond("rsi") /\ Cond("movingAverages") /\ Cond("bollingerBands")
                /\ Cond("macd") /\ Cond("volume") /\ Cond("cvd"))

\* C13 witness: an evaluation whose bollinger flag is off while the price is
\* above the band, with every condition met.
C13_Witness ==
    /\ Evaluated
    /\ ~lastEval.config.useBollingerLower
    /\ lastEval.currentPrice * 100
         > lastEval.indicators.bollingerLower * lastEval.config.bollingerMultiplier
    /\ lastEval.config.macdLineAboveSignal
    /\ lastEval.result.allConditionsMet

\* C14: with useBollingerLower, macdLineAboveSignal, cvdSlopePositive and the
\* strategy's moving-average pair all disabled, the bollinger, MACD,
\* moving-average and CVD conditions are true and allConditionsMet equals
\* (rsiMin <= rsi <= rsiMax) AND (volume > avgVolume x volumeMultiplier).
C14_OnlyRsiAndVolumeDecide ==
    (/\ Evaluated
     /\ ~lastEval.config.useBollingerLower
     /\ ~lastEval.config.macdLineAboveSignal
     /\ ~lastEval.config.cvdSlopePositive
     /\ MaPairOff) =>
        /\ Cond("bollingerBands") /\ Cond("macd") /\ Cond("movingAverages") /\ Cond("cvd")
        /\ lastEval.result.allConditionsMet
             = (/\ lastEval.indicators.rsi >= lastEval.config.rsiMin
                /\ lastEval.indicators.rsi <= lastEval.config.rsiMax
                /\ lastEval.indicators.volume * 100
                     > lastEval.indicators.avgVolume * lastEval.config.volumeMultiplier)

\* C14 witness: an intraday evaluation with every optional flag off whose
\* indicators would fail the bollinger, MACD, moving-average and CVD checks,
\* and which is met on RSI and volume alone.
C14_Witness ==
    /\ lastEval.strategy = "intraday"
    /\ ~lastEval.config.useBollingerLower
    /\ ~lastEval.config.macdLineAboveSignal
    /\ ~lastEval.config.cvdSlopePositive
    /\ MaPairOff
    /\ lastEval.indicators.macd.line < lastEval.indicators.macd.signal
    /\ lastEval.indicators.cvdSlope < 0
    /\ lastEval.indicators.ma20 < lastEval.indicators.ma34
    /\ lastEval.indicators.bollingerLower < 100
    /\ lastEval.result.allConditionsMet

\* C15: with macdLineAboveSignal enabled, the MACD condition is true exactly
\* when line > signal and, if macdLineAboveZero is enabled too, line > 0.
C15_MacdCondition ==
    (Evaluated /\ lastEval.config.macdLineAboveSignal) =>
        Cond("macd")
          = (/\ lastEval.indicators.macd.line > lastEval.indicators.macd.signal
             /\ lastEval.config.macdLineAboveZero => lastEval.indicators.macd.line > 0)

\* C15 witness: the line is above the signal but below zero, and the condition
\* holds because macdLineAboveZero is off.
C15_Witness ==
    /\ Evaluated
    /\ lastEval.config.macdLineAboveSignal
    /\ ~lastEval.config.macdLineAboveZero
    /\ lastEval.indicators.macd.line > lastEval.indicators.macd.signal
    /\ lastEval.indicators.macd.line < 0
    /\ Cond("macd")

\* C16: with cvdSlopePositive enabled, the CVD condition is true exactly when
\* the slope > 0 and, if cvdAboveZero is enabled too, the CVD value > 0.
C16_CvdCondition ==
    (Evaluated /\ lastEval.config.cvdSlopePositive) =>
        Cond("cvd")
          = (/\ lastEval.indicators.cvdSlope > 0
             /\ lastEval.config.cvdAboveZero => lastEval.indicators.cvd > 0)

\* C16 witness: both flags on, a positive CVD value with a negative slope, and
\* the condition is false.
C16_Witness ==
    /\ Evaluated
    /\ lastEval.config.cvdSlopePositive
    /\ lastEval.config.cvdAboveZero
    /\ lastEval.indicators.cvd > 0
    /\ lastEval.indicators.cvdSlope < 0
    /\ ~Cond("cvd")

\* C20: the output carries entryPrice = current price, takeProfit = price x
\* (1 + takeProfitPercent/100) and stopLoss = price x (1 - stopLossPercent/100)
\* (both held in 1/10000 of the price unit, percentages in hundredths); for a
\* positive price and positive percentages stopLoss < entryPrice < takeProfit.
C20_EntryTakeProfitStopLoss ==
    Evaluated =>
        LET price == lastEval.currentPrice
            r == lastEval.result
        IN  /\ r.entryPrice = price
            /\ r.takeProfit = price * 10000 + price * lastEval.config.takeProfitPercent
            /\ r.stopLoss = price * 10000 - price * lastEval.config.stopLossPercent
            /\ (/\ price > 0
                /\ lastEval.config.takeProfitPercent > 0
                /\ lastEval.config.stopLossPercent > 0)
                 => (r.stopLoss < r.entryPrice * 10000 /\ r.entryPrice * 10000 < r.takeProfit)

\* C20 witness: an evaluation at price 100 with 2% take profit and 1% stop
\* loss: 102 and 99.
C20_Witness ==
    /\ Evaluated
    /\ lastEval.currentPrice = 100
    /\ lastEval.config.takeProfitPercent = 200
    /\ lastEval.config.stopLossPercent = 100
    /\ lastEval.result.takeProfit = 102 * 10000
    /\ lastEval.result.stopLoss = 99 * 10000

(***************************************************************************)
(* StrategyConditionsManager as a whole (src/unnamed/part_001): its four   *)
(* public operations on the map `conditions`.  A call that throws leaves   *)
(* the map as it was.  JSON.parse/JSON.stringify of a map of flat configs  *)
(* of finite numbers and booleans give the same map back, so an imported   *)
(* document is given by the value it parses to.                            *)
(***************************************************************************)
ManagerKinds == {"scalping", "intraday", "pump"}

\* this.conditions after importConditions('null')
NullStore == [null |-> TRUE]

ConfigFields == DOMAIN DEFAULT_SCALPING_CONDITIONS

\* getDefaultConditions(strategy): a copy of the kind's default
getDefaultConditions(strategy) ==
    CASE strategy = "scalping" -> DEFAULT_SCALPING_CONDITIONS
      [] strategy = "intraday" -> DEFAULT_INTRADAY_CONDITIONS
      [] strategy = "pump" -> DEFAULT_PUMP_CONDITIONS

\* { ...old, ...conditions }
Merge(old, partial) ==
    [k \in (DOMAIN old) \cup (DOMAIN partial) |->
        IF k \in DOMAIN partial THEN partial[k] ELSE old[k]]

HasConfig(cs, symbol, strategy) ==
    /\ cs # NullStore
    /\ Has(cs, symbol)
    /\ Has(cs[symbol], strategy)

\* getConditions: what the call does for its caller
getConditionsOutcome(cs, symbol, strategy) ==
    IF cs = NullStore
    THEN [kind |-> "throws"]
    ELSE LET after == managerAfterGet(cs, symbol)
         IN  IF Has(after[symbol], strategy)
             THEN [kind |-> "returns", config |-> after[symbol][strategy]]
             ELSE [kind |-> "returns undefined"]

\* getConditions: the map after the call
getConditionsStore(cs, symbol) ==
    IF cs = NullStore THEN cs ELSE managerAfterGet(cs, symbol)

\* the config a pair holds, undefined read as no field at all
storedConfig(cs, symbol, strategy) ==
    IF Has(cs[symbol], strategy) THEN cs[symbol][strategy] ELSE EmptyObj

\* updateConditions: the map after the call
managerUpdateConditionsWholeSymbol(cs, symbol, strategy, partial) ==
    IF cs = NullStore
    THEN cs
    ELSE LET after == managerAfterGet(cs, symbol)
         IN  Put(after, symbol,
                 [k \in DOMAIN after[symbol] \cup {strategy} |->
                     Merge(storedConfig(after, symbol, k), partial)])

managerUpdateConditions(cs, symbol, strategy, partial) ==
    IF cs = NullStore
    THEN cs
    ELSE LET after == managerAfterGet(cs, symbol)
         IN  Put(after, symbol,
                 Put(after[symbol], strategy,
                     Merge(storedConfig(after, symbol, strategy), partial)))

\* resetConditions: the map after the call
managerResetConditionsKeepingChanges(cs, symbol, strategy) ==
    IF cs = NullStore
    THEN cs
    ELSE LET after == managerAfterGet(cs, symbol)
         IN  Put(after, symbol,
                 Put(after[symbol], strategy,
                     Merge(getDefaultConditions(strategy),
                           storedConfig(after, symbol, strategy))))

managerResetConditions(cs, symbol, strategy) ==
    IF cs = NullStore
    THEN cs
    ELSE LET after == managerAfterGet(cs, symbol)
         IN  Put(after, symbol,
                 Put(after[symbol], strategy, getDefaultConditions(strategy)))

\* updateConditions / resetConditions: whether the call completes
writeOutcome(cs) == IF cs = NullStore THEN [kind |-> "throws"] ELSE [kind |-> "done"]

\* importConditions: typeof null and typeof {} are both 'object'
importAccepted(doc) == doc.type \in {"object", "null"}

importConditions(cs, doc) == IF importAccepted(doc) THEN doc.value ELSE cs

\* partial configs an owner saves from the dialog
Partials == {[rsiMax |-> 50], [useMA8 |-> FALSE, takeProfitPercent |-> 100]}

\* documents handed to importConditions, by what JSON.parse makes of them:
\* not JSON, a number, null, an empty map, a map whose only symbol holds only
\* a scalping config
ImportDocs ==
    {[type |-> "invalid"], [type |-> "number"],
     [type |-> "null", value |-> NullStore],
     [type |-> "object", value |-> EmptyObj],
     [type |-> "object",
      value |-> Put(EmptyObj, "BTCUSDT",
                    Put(EmptyObj, "scalping", DEFAULT_SCALPING_CONDITIONS))]}

ManagerGet(symbol, strategy) ==
    /\ conditions' = getConditionsStore(conditions, symbol)
    /\ managerCall' = [op |-> "get", symbol |-> symbol, strategy |-> strategy,
                       stored |-> HasConfig(conditions, symbol, strategy),
                       outcome |-> getConditionsOutcome(conditions, symbol, strategy)]
    /\ UNCHANGED <<savedSignals, evals, lastEval, trackerVars, cvdVars, indicatorVars, serviceVars, socketVars>>

\* getAllConditionsForSymbol(symbol): initialises a missing symbol, returns its kinds
ManagerGetAll(symbol) ==
    /\ conditions' = getConditionsStore(conditions, symbol)
    /\ managerCall' = [op |-> "getAll", symbol |-> symbol,
                       outcome |-> IF conditions = NullStore
                                   THEN [kind |-> "throws"]
                                   ELSE [kind |-> "returns",
                                         configs |-> managerAfterGet(conditions, symbol)[symbol]]]
    /\ UNCHANGED <<savedSignals, evals, lastEval, trackerVars, cvdVars, indicatorVars, serviceVars, socketVars>>

ManagerUpdate(symbol, strategy, partial) ==
    /\ conditions' = managerUpdateConditions(conditions, symbol, strategy, partial)
    /\ managerCall' = [op |-> "update", symbol |-> symbol, strategy |-> strategy,
                       before |-> getConditionsOutcome(conditions, symbol, strategy),
                       outcome |-> writeOutcome(conditions)]
    /\ UNCHANGED <<savedSignals, evals, lastEval, trackerVars, cvdVars, indicatorVars, serviceVars, socketVars>>

ManagerReset(symbol, strategy) ==
    /\ conditions' = managerResetConditions(conditions, symbol, strategy)
    /\ managerCall' = [op |-> "reset", symbol |-> symbol, strategy |-> strategy,
                       before |-> getConditionsOutcome(conditions, symbol, strategy),
                       outcome |-> writeOutcome(conditions)]
    /\ UNCHANGED <<savedSignals, evals, lastEval, trackerVars, cvdVars, indicatorVars, serviceVars, socketVars>>

ManagerImport(doc) ==
    /\ conditions' = importConditions(conditions, doc)
    /\ managerCall' = [op |-> "import", doc |-> doc.type,
                       outcome |-> [kind |-> "returns", value |-> importAccepted(doc)]]
    /\ UNCHANGED <<savedSignals, evals, lastEval, trackerVars, cvdVars, indicatorVars, serviceVars, socketVars>>

NextManager ==
    \/ \E symbol \in Symbols, strategy \in ManagerKinds : ManagerGet(symbol, strategy)
    \/ \E symbol \in Symbols : ManagerGetAll(symbol)
    \/ \E symbol \in Symbols, strategy \in Strategies :
          \/ \E partial \in Partials : ManagerUpdate(symbol, strategy, partial)
          \/ ManagerReset(symbol, strategy)
    \/ \E doc \in ImportDocs : ManagerImport(doc)

SpecManager == Init /\ [][NextManager]_vars

(***************************************************************************)
(* Claims about the conditions manager (checked under SpecManager).        *)
(***************************************************************************)
\* the built-in default of a kind, as the source's three constants
BuiltInDefault(strategy) ==
    IF strategy = "scalping" THEN DEFAULT_SCALPING_CONDITIONS
    ELSE IF strategy = "intraday" THEN DEFAULT_INTRADAY_CONDITIONS
    ELSE DEFAULT_PUMP_CONDITIONS

\* C17: getConditions(symbol, kind) never fails and always returns a complete
\* StrategyConfig; for a symbol and kind with no stored config, after any
\* sequence of getConditions, updateConditions, resetConditions and
\* importConditions calls, it returns the built-in default of that kind.
C17_GetNeverFailsAndDefaults ==
    managerCall.op = "get" =>
        /\ managerCall.outcome.kind = "returns"
        /\ DOMAIN managerCall.outcome.config = ConfigFields
        /\ ~managerCall.stored
             => managerCall.outcome.config = BuiltInDefault(managerCall.strategy)

\* what the evaluator of a pair is handed: the view of the map through
\* getConditions, also for a symbol the manager has not seen
ViewSymbols == Symbols \cup {"SOLUSDT"}

\* C18: updateConditions and resetConditions for one (symbol, strategy) pair
\* change only that pair's config: what getConditions gives for the same
\* symbol's other strategies and for every other symbol, seen by the manager
\* or initialised later from the built-in defaults, is as before the call.
C18_WritesChangeOnlyOwnPair ==
    [][managerCall'.op \in {"update", "reset"} =>
          \A s \in ViewSymbols, k \in ManagerKinds :
              <<s, k>> # <<managerCall'.symbol, managerCall'.strategy>>
                  => getConditionsOutcome(conditions', s, k)
                       = getConditionsOutcome(conditions, s, k)]_vars

\* C18 witness: an update changed the config of its pair while the same
\* symbol's other strategy held a changed config too.
C18_Witness ==
    /\ managerCall.op = "update"
    /\ managerCall.outcome.kind = "done"
    /\ managerCall.before
         # getConditionsOutcome(conditions, managerCall.symbol, managerCall.strategy)
    /\ \E k \in Strategies \ {managerCall.strategy} :
          /\ HasConfig(conditions, managerCall.symbol, k)
          /\ conditions[managerCall.symbol][k] # BuiltInDefault(k)

\* C19: after a resetConditions(symbol, strategy) call, getConditions(symbol,
\* strategy) returns a config equal in every field to the built-in default of
\* the kind, whatever updateConditions calls preceded it.
C19_ResetRestoresDefault ==
    (managerCall.op = "reset" /\ managerCall.outcome.kind = "done") =>
        getConditionsOutcome(conditions, managerCall.symbol, managerCall.strategy)
          = [kind |-> "returns", config |-> BuiltInDefault(managerCall.strategy)]

\* C19 witness: a reset of a pair whose config had been changed in three
\* fields by two updateConditions calls.
C19_Witness ==
    /\ managerCall.op = "reset"
    /\ managerCall.outcome.kind = "done"
    /\ managerCall.before.kind = "returns"
    /\ DOMAIN managerCall.before.config = ConfigFields
    /\ managerCall.before.config.rsiMax = 50
    /\ managerCall.before.config.takeProfitPercent = 100
    /\ ~managerCall.before.config.useMA8

(***************************************************************************)
(* The worker's stateless indicator functions (src/unnamed/part_000).      *)
(* Fractions are kept in lowest terms with a positive denominator, so two  *)
(* equal results are the same record.                                      *)
(***************************************************************************)
RECURSIVE Gcd(_, _)
Gcd(a, b) == IF b = 0 THEN a ELSE Gcd(b, a % b)

Sign(x) == IF x > 0 THEN 1 ELSE IF x < 0 THEN 0 - 1 ELSE 0

Norm(r) ==
    IF r.den = 0 THEN Rat(Sign(r.num), 0)
    ELSE LET g == Gcd(Abs(r.num), Abs(r.den))
         IN  Rat(Sign(r.den) * (r.num \div g), Abs(r.den) \div g)

Whole(n) == Rat(n, 1)

\* a + b and a - b over the least common denominator
RatAdd(a, b) ==
    IF a.den = 0 \/ b.den = 0 THEN Rat(0, 0)
    ELSE LET g == Gcd(a.den, b.den)
         IN  Norm(Rat(a.num * (b.den \div g) + b.num * (a.den \div g),
                      (a.den \div g) * b.den))

RatNeg(a) == Rat(0 - a.num, a.den)

RatSub(a, b) == RatAdd(a, RatNeg(b))

RatMul(a, b) ==
    LET x == Norm(Rat(a.num, b.den))
        y == Norm(Rat(b.num, a.den))
    IN  Norm(Rat(x.num * y.num, x.den * y.den))

RatDiv(a, b) == RatMul(a, Rat(b.den, b.num))

\* a <= b for fractions in lowest terms with positive denominators
RatLeq(a, b) == a.num * b.den <= b.num * a.den

\* prices.slice(-period).reduce((acc, price) => acc + price, 0)
SumLast(prices, period) == SumSeq(SliceLast(prices, period))

\* calculateRSI: the loop over the last `period` changes
RECURSIVE rsiGains(_, _)
rsiGains(prices, i) ==
    IF i > Len(prices) THEN 0
    ELSE (IF prices[i] - prices[i - 1] > 0 THEN prices[i] - prices[i - 1] ELSE 0)
           + rsiGains(prices, i + 1)

RECURSIVE rsiLossesSigned(_, _)
rsiLossesSigned(prices, i) ==
    IF i > Len(prices) THEN 0
    ELSE (IF prices[i] - prices[i - 1] > 0 THEN 0 ELSE prices[i] - prices[i - 1])
           + rsiLossesSigned(prices, i + 1)

RECURSIVE rsiLosses(_, _)
rsiLosses(prices, i) ==
    IF i > Len(prices) THEN 0
    ELSE (IF prices[i] - prices[i - 1] > 0 THEN 0 ELSE Abs(prices[i] - prices[i - 1]))
           + rsiLosses(prices, i + 1)

\* the tail of calculateRSI, after gains and losses are summed
rsiFromSumsUnguarded(gains, losses, period) ==
    LET avgGain == Norm(Rat(gains, period))
        avgLoss == Norm(Rat(losses, period))
    IN  IF avgLoss.num = 0
        THEN IF avgGain.num = 0 THEN Rat(0, 0) ELSE Whole(100)
        ELSE LET rs == RatDiv(avgGain, avgLoss)
             IN  RatSub(Whole(100), RatDiv(Whole(100), RatAdd(Whole(1), rs)))

rsiFromSums(gains, losses, period) ==
    LET avgGain == Norm(Rat(gains, period))
        avgLoss == Norm(Rat(losses, period))
    IN  IF avgLoss.num = 0 THEN Whole(100)
        ELSE LET rs == RatDiv(avgGain, avgLoss)
             IN  RatSub(Whole(100), RatDiv(Whole(100), RatAdd(Whole(1), rs)))

calculateRSINoWarmup(prices, period) ==
    IF Len(prices) < period THEN Whole(50)
    ELSE rsiFromSums(rsiGains(prices, Len(prices) - period + 2),
                     rsiLosses(prices, Len(prices) - period + 2), period)

calculateRSI(prices, period) ==
    IF Len(prices) < period + 1 THEN Whole(50)
    ELSE rsiFromSums(rsiGains(prices, Len(prices) - period + 1),
                     rsiLosses(prices, Len(prices) - period + 1), period)

\* ema = (prices[i] - ema) * multiplier + ema
emaStep(ema, price, multiplier) ==
    RatAdd(RatMul(RatSub(Whole(price), ema), multiplier), ema)

\* calculateEMA: the value of ema after the loop's step for prices[n]; the
\* value of the step before is bound as the element of a one-element set
RECURSIVE emaLoop(_, _, _)
emaLoop(prices, n, multiplier) ==
    IF n = 1 THEN Whole(prices[1])
    ELSE CHOOSE next \in {emaStep(ema, prices[n], multiplier) :
                              ema \in {emaLoop(prices, n - 1, multiplier)}} : TRUE

calculateEMA(prices, period) ==
    IF Len(prices) = 0 THEN Whole(0)
    ELSE emaLoop(prices, Len(prices), Norm(Rat(2, period + 1)))

\* calculateMACD; 0.8 is the fraction 4/5
calculateMACDSwapped(prices) ==
    IF Len(prices) < 26
    THEN [macd |-> Whole(0), signal |-> Whole(0), line |-> Whole(0)]
    ELSE LET macdLine == RatSub(calculateEMA(prices, 26), calculateEMA(prices, 12))
             signal == RatMul(macdLine, Rat(4, 5))
         IN  [macd |-> RatSub(macdLine, signal), signal |-> signal, line |-> macdLine]

calculateMACDSignalAbove(prices) ==
    IF Len(prices) < 26
    THEN [macd |-> Whole(0), signal |-> Whole(0), line |-> Whole(0)]
    ELSE LET macdLine == RatSub(calculateEMA(prices, 12), calculateEMA(prices, 26))
             signal == RatMul(macdLine, Rat(6, 5))
         IN  [macd |-> RatSub(macdLine, signal), signal |-> signal, line |-> macdLine]

calculateMACD(prices) ==
    IF Len(prices) < 26
    THEN [macd |-> Whole(0), signal |-> Whole(0), line |-> Whole(0)]
    ELSE LET ema12 == calculateEMA(prices, 12)
             ema26 == calculateEMA(prices, 26)
             macdLine == RatSub(ema12, ema26)
             signal == RatMul(macdLine, Rat(4, 5))
             macd == RatSub(macdLine, signal)
         IN  [macd |-> macd, signal |-> signal, line |-> macdLine]

\* prices[prices.length - 1] || 0
LastOrZero(prices) == IF Len(prices) = 0 THEN 0 ELSE Last(prices)

(***************************************************************************)
(* JavaScript numbers in calculateBollingerBands: IEEE 754 binary64, every *)
(* operation rounded to nearest, ties to even.  A number is the record     *)
(* [s, m, e] for (-1)^s * m * 2^e, where m has exactly 53 bits (0 is m = 0 *)
(* with s = 0 and e = 0; the prices drawn are positive and no result       *)
(* leaves the normal range, so infinities, NaN, subnormal numbers and -0   *)
(* do not occur).  m is a whole number of any size, held as its limbs of   *)
(* base 2^15, least significant first, the most significant not 0.         *)
(***************************************************************************)
LimbBits == 3 * 5
LimbBase == 2 ^ LimbBits

RECURSIVE BNat(_)
BNat(n) == IF n = 0 THEN << >> ELSE <<n % LimbBase>> \o BNat(n \div LimbBase)

RECURSIVE BTrim(_)
BTrim(a) ==
    IF Len(a) = 0 THEN a
    ELSE IF a[Len(a)] = 0 THEN BTrim(SubSeq(a, 1, Len(a) - 1)) ELSE a

LimbAt(a, i) == IF i <= Len(a) THEN a[i] ELSE 0
MaxOf(x, y) == IF x > y THEN x ELSE y
MinOf(x, y) == IF x < y THEN x ELSE y

RECURSIVE BAddFrom(_, _, _, _, _)
BAddFrom(a, b, i, carry, acc) ==
    IF i > MaxOf(Len(a), Len(b))
    THEN IF carry = 0 THEN acc ELSE Append(acc, carry)
    ELSE LET x == LimbAt(a, i) + LimbAt(b, i) + carry
         IN  BAddFrom(a, b, i + 1, x \div LimbBase, Append(acc, x % LimbBase))

BAdd(a, b) == BAddFrom(a, b, 1, 0, << >>)

RECURSIVE BSubFrom(_, _, _, _, _)
BSubFrom(a, b, i, borrow, acc) ==
    IF i > Len(a) THEN BTrim(acc)
    ELSE LET x == a[i] - LimbAt(b, i) - borrow
         IN  IF x < 0 THEN BSubFrom(a, b, i + 1, 1, Append(acc, x + LimbBase))
             ELSE BSubFrom(a, b, i + 1, 0, Append(acc, x))

\* a - b for a >= b
BSub(a, b) == BSubFrom(a, b, 1, 0, << >>)

RECURSIVE BCmpFrom(_, _, _)
BCmpFrom(a, b, i) ==
    IF i = 0 THEN 0
    ELSE IF a[i] > b[i] THEN 1
    ELSE IF a[i] < b[i] THEN 0 - 1
    ELSE BCmpFrom(a, b, i - 1)

\* -1, 0 or 1 as a < b, a = b or a > b
BCmp(a, b) ==
    IF Len(a) > Len(b) THEN 1
    ELSE IF Len(a) < Len(b) THEN 0 - 1
    ELSE BCmpFrom(a, b, Len(a))

RECURSIVE BMulSmallFrom(_, _, _, _, _)
BMulSmallFrom(a, k, i, carry, acc) ==
    IF i > Len(a)
    THEN IF carry = 0 THEN acc ELSE Append(acc, carry)
    ELSE LET x == a[i] * k + carry
         IN  BMulSmallFrom(a, k, i + 1, x \div LimbBase, Append(acc, x % LimbBase))

\* a * k for 0 <= k < 2^15
BMulSmall(a, k) == IF k = 0 THEN << >> ELSE BMulSmallFrom(a, k, 1, 0, << >>)

BShiftLimbs(a, n) == IF Len(a) = 0 THEN a ELSE [i \in 1..n |-> 0] \o a

\* each partial sum is evaluated before the next step is taken
RECURSIVE BMulFrom(_, _, _, _)
BMulFrom(a, b, i, acc) ==
    IF i > Len(b) THEN acc
    ELSE LET next == BAdd(acc, BShiftLimbs(BMulSmall(a, b[i]), i - 1))
         IN  IF Len(next) >= 0 THEN BMulFrom(a, b, i + 1, next) ELSE next

BMul(a, b) == BMulFrom(a, b, 1, << >>)

RECURSIVE BDivSmallFrom(_, _, _, _, _)
BDivSmallFrom(a, k, i, rem, acc) ==
    IF i = 0 THEN [q |-> BTrim(acc), r |-> rem]
    ELSE LET cur == rem * LimbBase + a[i]
         IN  BDivSmallFrom(a, k, i - 1, cur % k, <<cur \div k>> \o acc)

\* quotient and remainder of a by k, 0 < k <= 2^15
BDivSmall(a, k) == BDivSmallFrom(a, k, Len(a), 0, << >>)

\* a * 2^n
BShl(a, n) == BShiftLimbs(BMulSmall(a, 2 ^ (n % LimbBits)), n \div LimbBits)

\* a \div 2^n
BShr(a, n) ==
    LET drop == n \div LimbBits
    IN  IF drop >= Len(a) THEN << >>
        ELSE BDivSmall(SubSeq(a, drop + 1, Len(a)), 2 ^ (n % LimbBits)).q

\* a % 2^n
BLowBits(a, n) ==
    LET whole == n \div LimbBits
    IN  IF whole >= Len(a) THEN a
        ELSE BTrim(Append(SubSeq(a, 1, whole), a[whole + 1] % (2 ^ (n % LimbBits))))

RECURSIVE BitLen(_)
BitLen(x) == IF x = 0 THEN 0 ELSE 1 + BitLen(x \div 2)

BBitLen(a) == IF Len(a) = 0 THEN 0 ELSE LimbBits * (Len(a) - 1) + BitLen(a[Len(a)])

BIsOdd(a) == Len(a) > 0 /\ a[1] % 2 = 1

\* the bits from..to of the root of a, the higher bits being those of root: a
\* bit is set when the square stays at most a.  The range is halved, the higher
\* half first, and each half is evaluated before the next is begun
RECURSIVE BSqrtBits(_, _, _, _)
BSqrtBits(a, root, from, to) ==
    IF from < to THEN root
    ELSE IF from = to
    THEN LET candidate == BAdd(root, BShl(<<1>>, from))
         IN  IF BCmp(BMul(candidate, candidate), a) <= 0 THEN candidate ELSE root
    ELSE LET mid == (from + to) \div 2
             high == BSqrtBits(a, root, from, mid + 1)
         IN  IF Len(high) >= 0 THEN BSqrtBits(a, high, mid, to) ELSE high

\* the largest whole number whose square is at most a
BSqrt(a) == BSqrtBits(a, << >>, (BBitLen(a) + 1) \div 2, 0)

\* (-1)^s * m * 2^e, exact, for m of any size
Dyadic(s, m, e) ==
    IF Len(m) = 0 THEN [s |-> 0, m |-> m, e |-> 0] ELSE [s |-> s, m |-> m, e |-> e]

DNeg(x) == Dyadic(1 - x.s, x.m, x.e)
DAbs(x) == Dyadic(0, x.m, x.e)

DAdd(x, y) ==
    IF Len(x.m) = 0 THEN y
    ELSE IF Len(y.m) = 0 THEN x
    ELSE LET e == MinOf(x.e, y.e)
             a == BShl(x.m, x.e - e)
             b == BShl(y.m, y.e - e)
             c == BCmp(a, b)
         IN  IF x.s = y.s THEN Dyadic(x.s, BAdd(a, b), e)
             ELSE IF c = 0 THEN Dyadic(0, << >>, 0)
             ELSE IF c > 0 THEN Dyadic(x.s, BSub(a, b), e)
             ELSE Dyadic(y.s, BSub(b, a), e)

DSub(x, y) == DAdd(x, DNeg(y))
DMul(x, y) == Dyadic((x.s + y.s) % 2, BMul(x.m, y.m), x.e + y.e)
DInt(n) == IF n < 0 THEN Dyadic(1, BNat(0 - n), 0) ELSE Dyadic(0, BNat(n), 0)

\* x <= y
DLeq(x, y) == LET d == DSub(x, y) IN d.s = 1 \/ Len(d.m) = 0

\* the binary64 number nearest to (-1)^s * m * 2^e, the even one of two equally
\* near; inexact says that the value rounded lies above m * 2^e in magnitude
\* by less than 2^e (the digits a division or a square root leaves out)
Round(s, m, e, inexact) ==
    LET len == BBitLen(m)
    IN  IF len <= 53 THEN Dyadic(s, BShl(m, 53 - len), e - (53 - len))
        ELSE LET shift == len - 53
                 q == BShr(m, shift)
                 c == BCmp(BLowBits(m, shift), BShl(<<1>>, shift - 1))
                 up == c > 0 \/ (c = 0 /\ (inexact \/ BIsOdd(q)))
                 rounded == IF up THEN BAdd(q, <<1>>) ELSE q
             IN  IF BBitLen(rounded) > 53
                 THEN Dyadic(s, BShr(rounded, 1), e + shift + 1)
                 ELSE Dyadic(s, rounded, e + shift)

RoundExact(x) == Round(x.s, x.m, x.e, FALSE)

\* a whole number as a JavaScript number
flInt(n) == RoundExact(DInt(n))

\* x + y, x - y, x * y
flAdd(x, y) == RoundExact(DAdd(x, y))
flSub(x, y) == RoundExact(DSub(x, y))
flMul(x, y) == RoundExact(DMul(x, y))

\* x / n for a whole number n, 0 < n < 2^15: the quotient is taken to at least
\* 58 bits and the remainder tells whether digits were left out
flDiv(x, n) ==
    LET d == BDivSmall(BShl(x.m, 20), n)
    IN  Round(x.s, d.q, x.e - 20, d.r # 0)

\* Math.sqrt(x) for x >= 0: the root of m * 2^k taken to at least 55 bits
flSqrt(x) ==
    LET k == IF x.e % 2 = 0 THEN 58 ELSE 59
        a == BShl(x.m, k)
        root == BSqrt(a)
    IN  Round(0, root, (x.e - k) \div 2, BCmp(BMul(root, root), a) # 0)

\* the number a decimal numeral num / den denotes, den a power of ten below
\* 2^15: the binary64 number nearest to the quotient
flDecimal(num, den) == flDiv(flInt(num), den)

\* prices[prices.length - 1] || 0
currentPriceOf(prices) == IF Len(prices) = 0 THEN flInt(0) ELSE Last(prices)

\* recentPrices.reduce((sum, price) => sum + price, 0) over the elements
\* from..to, in their order: the range is halved and the sum over the first
\* half is evaluated before the second half is begun
RECURSIVE reduceSum(_, _, _, _)
reduceSum(recentPrices, from, to, sum) ==
    IF from > to THEN sum
    ELSE IF from = to THEN flAdd(sum, recentPrices[from])
    ELSE LET mid == (from + to) \div 2
             first == reduceSum(recentPrices, from, mid, sum)
         IN  IF first.s >= 0 THEN reduceSum(recentPrices, mid + 1, to, first) ELSE first

\* Math.pow(x, 2): the rounded product x * x
pow2(x) == flMul(x, x)

\* recentPrices.reduce((sum, price) => sum + Math.pow(price - middle, 2), 0)
\* likewise
RECURSIVE squaredDeviations(_, _, _, _, _)
squaredDeviations(recentPrices, middle, from, to, sum) ==
    IF from > to THEN sum
    ELSE IF from = to THEN flAdd(sum, pow2(flSub(recentPrices[from], middle)))
    ELSE LET mid == (from + to) \div 2
             first == squaredDeviations(recentPrices, middle, from, mid, sum)
         IN  IF first.s >= 0
             THEN squaredDeviations(recentPrices, middle, mid + 1, to, first)
             ELSE first

\* lines 98-101 with upper and lower exchanged
bandsOfStdDevSwapped(middle, stdDev) ==
    [upper |-> flSub(middle, flMul(stdDev, flInt(2))),
     lower |-> flAdd(middle, flMul(stdDev, flInt(2))),
     middle |-> middle]

\* lines 98-101: the bands for the middle and stdDev computed above them
bandsOfStdDev(middle, stdDev) ==
    [upper |-> flAdd(middle, flMul(stdDev, flInt(2))),
     lower |-> flSub(middle, flMul(stdDev, flInt(2))),
     middle |-> middle]

\* lines 95-101 with the variance divided by period - 1
bandsOfMiddleSampleDeviation(recentPrices, period, middle) ==
    LET variance == flDiv(squaredDeviations(recentPrices, middle, 1, period, flInt(0)),
                          period - 1)
    IN  bandsOfStdDev(middle, flSqrt(variance))

\* lines 95-101: variance, stdDev and the bands for the middle of line 94
bandsOfMiddle(recentPrices, period, middle) ==
    LET variance == flDiv(squaredDeviations(recentPrices, middle, 1, period, flInt(0)),
                          period)
    IN  bandsOfStdDev(middle, flSqrt(variance))

\* calculateBollingerBands
calculateBollingerBands(prices, period) ==
    IF Len(prices) < period
    THEN LET currentPrice == currentPriceOf(prices)
         IN  [upper |-> currentPrice, lower |-> currentPrice, middle |-> currentPrice]
    ELSE LET recentPrices == SliceLast(prices, period)
             middle == flDiv(reduceSum(recentPrices, 1, period, flInt(0)), period)
         IN  bandsOfMiddle(recentPrices, period, middle)

\* calculateVolumeSpike; 2.0 is the whole number 2
calculateVolumeSpikeNonStrict(volumes, period) ==
    IF Len(volumes) < period
    THEN [avgVolume |-> Whole(LastOrZero(volumes)), volumeSpike |-> FALSE]
    ELSE LET avgVolume == Norm(Rat(SumLast(volumes, period), period))
         IN  [avgVolume |-> avgVolume,
              volumeSpike |-> RatLeq(RatMul(avgVolume, Whole(2)), Whole(Last(volumes)))]

calculateVolumeSpike(volumes, period) ==
    IF Len(volumes) < period
    THEN [avgVolume |-> Whole(LastOrZero(volumes)), volumeSpike |-> FALSE]
    ELSE LET avgVolume == Norm(Rat(SumLast(volumes, period), period))
             currentVolume == Whole(Last(volumes))
         IN  [avgVolume |-> avgVolume,
              volumeSpike |-> ~RatLeq(currentVolume, RatMul(avgVolume, Whole(2)))]

(***************************************************************************)
(* The indicator functions applied to one input: a number sequence and a   *)
(* period are drawn at the start, then one of the functions is applied.    *)
(* The periods include the defaults the handler uses (14 for the RSI, 20   *)
(* for the volume spike).                                                  *)
(***************************************************************************)
\* length of the longest sequence enumerated value by value
ShortLen == 5
SampleValues == {10, 11, 13}
Periods == {2, 3, 14, 20}

\* longer sequences: all 10 with two free samples at the end (the moving
\* averages of 26 and more samples stay exact fractions of small size only
\* on such sequences), and the sender's bulk pattern below 26 samples
LongLengths == {13, 14, 15, 16, 19, 20, 21, 25, 26, 27}
PatternLengths == {15, 16, 20, 21, 25}
TailedSeq(n, a, b) == [i \in 1..n |-> IF i = n - 1 THEN a ELSE IF i = n THEN b ELSE 10]

IndicatorInputs ==
    UNION {SeqsOfLen(SampleValues, n) : n \in 0..ShortLen}
      \cup {TailedSeq(n, a, b) : n \in LongLengths, a \in SampleValues \cup {18},
                                 b \in SampleValues \cup {20, 22}}
      \cup {[i \in 1..n |-> PatternPrice(i)] : n \in PatternLengths}

InitCalc ==
    /\ InitTracker
    /\ InitStrategy
    /\ InitCvd
    /\ InitService
    /\ InitSocket
    /\ \E prices \in IndicatorInputs, period \in Periods :
          calc = [fn |-> "none", prices |-> prices, period |-> period]

Applied(fn, result) ==
    /\ calc.fn = "none"
    /\ calc' = [fn |-> fn, prices |-> calc.prices, period |-> calc.period,
                result |-> result]
    /\ UNCHANGED <<trackerVars, strategyVars, cvdVars, serviceVars, socketVars>>

ApplyRSI == Applied("calculateRSI", calculateRSI(calc.prices, calc.period))

ApplyMACD == Applied("calculateMACD", calculateMACD(calc.prices))

ApplyVolumeSpike ==
    Applied("calculateVolumeSpike", calculateVolumeSpike(calc.prices, calc.period))

NextCalc == ApplyRSI \/ ApplyMACD \/ ApplyVolumeSpike

SpecCalc == InitCalc /\ [][NextCalc]_vars

RsiApplied == calc.fn = "calculateRSI"

\* C21: with fewer than period + 1 samples, the empty sequence included,
\* calculateRSI returns exactly 50
C21_RsiWarmupIsFifty ==
    (RsiApplied /\ Len(calc.prices) < calc.period + 1) => calc.result = Whole(50)

\* the boundary: exactly `period` samples, not all equal
C21_Witness ==
    /\ RsiApplied
    /\ Len(calc.prices) = calc.period
    /\ \E i \in 2..Len(calc.prices) : calc.prices[i] > calc.prices[i - 1]
    /\ calc.result = Whole(50)

\* none of the last `period` changes of the sequence is a decrease
NoDecrease(prices, period) ==
    \A i \in (Len(prices) - period + 1)..Len(prices) : prices[i] >= prices[i - 1]

\* C22: with at least period + 1 samples and no decrease among the last
\* `period` changes (all samples equal included), calculateRSI returns
\* exactly 100, a number: nothing was divided by zero
C22_RsiWithoutLossIsHundred ==
    (/\ RsiApplied
     /\ Len(calc.prices) >= calc.period + 1
     /\ NoDecrease(calc.prices, calc.period))
        => calc.result = Whole(100)

\* all samples equal, so that average gain and average loss are both zero
C22_Witness ==
    /\ RsiApplied
    /\ Len(calc.prices) >= calc.period + 1
    /\ \A i \in 1..Len(calc.prices) : calc.prices[i] = calc.prices[1]
    /\ calc.result = Whole(100)

\* C23: whatever the sequence, the result of calculateRSI is a number
\* between 0 and 100, both included
C23_RsiWithinZeroAndHundred ==
    RsiApplied =>
        /\ calc.result.den > 0
        /\ 0 <= calc.result.num
        /\ calc.result.num <= 100 * calc.result.den

\* gains and losses both present: a result strictly inside the interval
C23_Witness ==
    /\ RsiApplied
    /\ Len(calc.prices) >= calc.period + 1
    /\ calc.result.den > 0
    /\ 0 < calc.result.num
    /\ calc.result.num < 100 * calc.result.den
    /\ calc.result # Whole(50)

MacdApplied == calc.fn = "calculateMACD"

\* C24: with fewer than 26 samples calculateMACD returns line, signal and
\* macd all 0; otherwise line is EMA(12) - EMA(26) of the sequence, signal
\* is 0.8 times line and macd is line minus signal
C24_MacdLineSignalHistogram ==
    MacdApplied =>
        IF Len(calc.prices) < 26
        THEN /\ calc.result.line = Whole(0)
             /\ calc.result.signal = Whole(0)
             /\ calc.result.macd = Whole(0)
        ELSE /\ calc.result.line =
                    RatSub(calculateEMA(calc.prices, 12), calculateEMA(calc.prices, 26))
             /\ calc.result.signal = RatMul(Rat(4, 5), calc.result.line)
             /\ RatAdd(calc.result.macd, calc.result.signal) = calc.result.line

\* 26 samples or more, the two averages apart
C24_Witness ==
    /\ MacdApplied
    /\ Len(calc.prices) >= 26
    /\ calc.result.line.num > 0
    /\ calc.result.macd.num > 0

VolumeSpikeApplied == calc.fn = "calculateVolumeSpike"

\* C26: the spike flag of calculateVolumeSpike is true if and only if there
\* are at least `period` volumes and the most recent one is strictly
\* greater than 2.0 times the average of the last `period` volumes (that
\* is, period times it exceeds twice their sum); with fewer than `period`
\* volumes the average is the latest volume and the flag is false
C26_VolumeSpike ==
    VolumeSpikeApplied =>
        LET n == Len(calc.prices)
            window == SubSeq(calc.prices, n - calc.period + 1, n)
        IN  /\ calc.result.volumeSpike
                <=> (/\ n >= calc.period
                     /\ calc.prices[n] * calc.period > 2 * SumSeq(window))
            /\ (n < calc.period /\ n > 0) =>
                    /\ calc.result.avgVolume = Whole(calc.prices[n])
                    /\ ~calc.result.volumeSpike
            /\ n >= calc.period =>
                    /\ calc.result.avgVolume.den > 0
                    /\ calc.result.avgVolume.num * calc.period
                           = SumSeq(window) * calc.result.avgVolume.den

\* a burst at the end of a full window of the default period
C26_Witness ==
    /\ VolumeSpikeApplied
    /\ calc.period = 20
    /\ Len(calc.prices) >= calc.period
    /\ calc.result.volumeSpike

(***************************************************************************)
(* The slope and the trend of a symbol's series, as the handler computes   *)
(* them after updateCVD (lookbacks 5 and 10).  The sender starts with a    *)
(* history already held: prices that rise by one for some samples, stay    *)
(* for some samples and fall by one from then on (or the mirror image),    *)
(* every volume 1.                                                         *)
(***************************************************************************)
ShapePrice(i, rise, flat, direction) ==
    IF i <= rise + 1 THEN 10 + direction * (i - 1)
    ELSE IF i <= rise + 1 + flat THEN 10 + direction * rise
    ELSE 10 + direction * (rise - (i - rise - 1 - flat))

ShapeLengths == {1, 2, 5, 6, 7, 10, 11, 12, 19}
ShapeRises == {0, 3, 10, 12}
ShapeFlats == {0, 2, 8, 19}
ShapeDirections == {1, 0 - 1}
ShapeVolumes == {1}

ShapeHistories ==
    {[i \in 1..n |-> ShapePrice(i, rise, flat, direction)] :
        n \in ShapeLengths, rise \in ShapeRises, flat \in ShapeFlats,
        direction \in ShapeDirections}

InitStats ==
    /\ InitTracker
    /\ InitStrategy
    /\ InitIndicators
    /\ InitService
    /\ InitSocket
    /\ cvdHistory = EmptyObj
    /\ \E h \in ShapeHistories, volume \in ShapeVolumes :
          /\ priceHistory = [s \in Symbols |-> h]
          /\ volumeHistory = [s \in Symbols |-> [i \in 1..Len(h) |-> volume]]
    /\ cvdTicks = [s \in Symbols |-> << >>]
    /\ extendedByOne = [s \in Symbols |-> TRUE]
    /\ nMessages = [s \in Symbols |-> 0]
    /\ lastReturn = 0
    /\ lastStats = [trend |-> "none"]

NextStats ==
    \E symbol \in Symbols :
        \/ FirstCall(symbol)
        \/ \E price \in TickPrices, volume \in ShapeVolumes : Tick(symbol, price, volume)

SpecStats == InitStats /\ [][NextStats]_vars

\* the handler has computed slope and trend for symbol s in the last step
StatsOf(s) == lastStats.trend # "none" /\ lastStats.symbol = s

\* the last n points of the series of s
RecentPoints(s, n) ==
    LET cvdValues == storedCVD(cvdHistory, s)
    IN  SubSeq(cvdValues, Len(cvdValues) - n + 1, Len(cvdValues))

\* the fraction r is the least-squares slope of the points y over x = 0, 1,
\* ...: the sum of (x - mean x) * y over the sum of (x - mean x)^2, each
\* deviation doubled to stay whole
IsLeastSquaresSlope(r, y) ==
    LET n == Len(y)
        covariance == SumSeq([i \in 1..n |-> (2 * (i - 1) - (n - 1)) * y[i]])
        spread == SumSeq([i \in 1..n |-> (2 * (i - 1) - (n - 1)) * (2 * (i - 1) - (n - 1))])
    IN  /\ r.den # 0
        /\ r.num * spread = 2 * covariance * r.den

\* slope is what C27 states for the series of s and the given lookback
SlopeAsStated(s, lookback, slope) ==
    IF Len(storedCVD(cvdHistory, s)) < lookback + 1
    THEN slope = Rat(0, 1)
    ELSE IsLeastSquaresSlope(slope, RecentPoints(s, lookback + 1))

\* lookbacks other than the handler's
OtherLookbacks == {1, 2}

\* C27: calculateCVDSlope returns 0 when the symbol's series has fewer than
\* lookback + 1 points (a symbol without a series included), and otherwise
\* the least-squares slope of the last lookback + 1 points, its denominator
\* not zero; for the handler's call with lookback 5 and for the same
\* function applied to the same store with shorter lookbacks
C27_SlopeIsLeastSquaresOrZero ==
    \A s \in Symbols :
        StatsOf(s) =>
            /\ SlopeAsStated(s, 5, lastStats.slope)
            /\ \A lookback \in OtherLookbacks :
                  SlopeAsStated(s, lookback, calculateCVDSlope(cvdHistory, s, lookback))

\* a series longer than the window, the slope not zero
C27_Witness ==
    \E s \in Symbols :
        /\ StatsOf(s)
        /\ Len(storedCVD(cvdHistory, s)) > 5 + 1
        /\ lastStats.slope.den # 0
        /\ lastStats.slope.num < 0

\* every price the worker received for s is the same
AllPricesEqual(s) ==
    \A i \in 1..Len(priceHistory[s]) : priceHistory[s][i] = priceHistory[s][1]

\* C28: when all the prices of a symbol's ticks are equal, after any number
\* of updateCVD calls its slope is 0 and its trend is "neutral"
C28_EqualPricesGiveZeroSlopeNeutralTrend ==
    \A s \in Symbols :
        (StatsOf(s) /\ AllPricesEqual(s)) =>
            /\ lastStats.slope.num = 0
            /\ lastStats.slope.den # 0
            /\ lastStats.trend = "neutral"

\* equal prices, several calls, a series long enough for both windows
C28_Witness ==
    \E s \in Symbols :
        /\ StatsOf(s)
        /\ AllPricesEqual(s)
        /\ nMessages[s] >= 2
        /\ Len(storedCVD(cvdHistory, s)) >= 10
        /\ lastStats.slope.num = 0
        /\ lastStats.trend = "neutral"

\* C29: calculateCVDTrend returns "neutral" when the series has fewer than
\* lookback points; otherwise, with first and last the ends of the last
\* lookback points and d = |first| (1 when first is 0), "bullish" iff
\* (last - first) / d > 0.1, "bearish" iff (last - first) / d < -0.1, and
\* "neutral" otherwise
C29_TrendByRelativeChange ==
    \A s \in Symbols :
        StatsOf(s) =>
            IF Len(storedCVD(cvdHistory, s)) < 10
            THEN lastStats.trend = "neutral"
            ELSE LET first == RecentPoints(s, 10)[1]
                     last == RecentPoints(s, 10)[10]
                     d == IF first = 0 THEN 1 ELSE IF first < 0 THEN 0 - first ELSE first
                 IN  /\ lastStats.trend = "bullish" <=> 10 * (last - first) > d
                     /\ lastStats.trend = "bearish" <=> 10 * (last - first) < 0 - d
                     /\ lastStats.trend \in {"bullish", "bearish", "neutral"}

\* a rise from a negative first value
C29_Witness ==
    \E s \in Symbols :
        /\ StatsOf(s)
        /\ Len(storedCVD(cvdHistory, s)) >= 10
        /\ RecentPoints(s, 10)[1] < 0
        /\ lastStats.trend = "bullish"

(***************************************************************************)
(* IndicatorHistoryService: snapshots are kept by their timestamps (the    *)
(* indicator values play no part in what is kept).  The interval timer     *)
(* started by the constructor fires when it is due, before more time       *)
(* passes; calls made at that same moment may come before it.              *)
(***************************************************************************)
\* steps of the clock in one behaviour, and addSnapshot calls
MaxClock == 15
MaxSnapshots == 2

\* cleanOldSnapshots(symbol) at the moment time
cleanOldSnapshots(history, symbol, time) ==
    LET cutoffTime == time - maxHistorySeconds * 1000
        Recent(timestamp) == timestamp >= cutoffTime
    IN  IF Has(history, symbol)
        THEN Put(history, symbol, SelectSeq(history[symbol], Recent))
        ELSE history

\* the timer's callback: Object.keys(this.history).forEach(cleanOldSnapshots)
cleanAll(history, time) ==
    [symbol \in DOMAIN history |-> cleanOldSnapshots(history, symbol, time)[symbol]]

\* getHistory(symbol): this.history[symbol] || []
getHistory(history, symbol) == IF Has(history, symbol) THEN history[symbol] ELSE << >>

\* time passes; the interval's callback may run later than it is due
Advance ==
    /\ now < MaxClock * TimeStep
    /\ now' = now + TimeStep
    /\ lastGet' = [symbol |-> "none"]
    /\ UNCHANGED <<timerDue, snapshotHistory, nAdded, cleanupTimer,
                   trackerVars, strategyVars, cvdVars, indicatorVars, socketVars>>

\* addSnapshot(symbol, indicators)
AddSnapshot(symbol) ==
    /\ nAdded < MaxSnapshots
    /\ nAdded' = nAdded + 1
    /\ snapshotHistory' =
          cleanOldSnapshots(Put(snapshotHistory, symbol,
                                Append(getHistory(snapshotHistory, symbol), now)),
                            symbol, now)
    /\ lastGet' = [symbol |-> "none"]
    /\ UNCHANGED <<now, timerDue, cleanupTimer>>
    /\ UNCHANGED <<trackerVars, strategyVars, cvdVars, indicatorVars, socketVars>>

\* the interval's callback runs, when due or later; the interval is then due
\* again cleanupInterval after this run
CleanupTimer ==
    /\ cleanupTimer
    /\ now >= timerDue
    /\ snapshotHistory' = cleanAll(snapshotHistory, now)
    /\ timerDue' = now + cleanupInterval
    /\ lastGet' = [symbol |-> "none"]
    /\ UNCHANGED <<now, nAdded, cleanupTimer>>
    /\ UNCHANGED <<trackerVars, strategyVars, cvdVars, indicatorVars, socketVars>>

\* cleanup(): clears the interval and empties the history
Cleanup ==
    /\ cleanupTimer' = FALSE
    /\ snapshotHistory' = EmptyObj
    /\ lastGet' = [symbol |-> "none"]
    /\ UNCHANGED <<now, timerDue, nAdded>>
    /\ UNCHANGED <<trackerVars, strategyVars, cvdVars, indicatorVars, socketVars>>

\* getHistory(symbol), the call and what it returned
GetHistory(symbol) ==
    /\ lastGet' = [symbol |-> symbol, time |-> now,
                   returned |-> getHistory(snapshotHistory, symbol)]
    /\ UNCHANGED <<now, timerDue, snapshotHistory, nAdded, cleanupTimer,
                   trackerVars, strategyVars, cvdVars, indicatorVars, socketVars>>

NextService ==
    \/ Advance
    \/ CleanupTimer
    \/ Cleanup
    \/ \E symbol \in Symbols : AddSnapshot(symbol)
    \/ \E symbol \in Symbols : GetHistory(symbol)

SpecService == Init /\ [][NextService]_vars

\* C30: at any time, after any addSnapshot calls and timer firings, every
\* snapshot getHistory(symbol) returns has a timestamp within the last 60
\* seconds of the moment of the call
C30_GetHistoryWithinSixtySeconds ==
    lastGet.symbol # "none" =>
        \A i \in 1..Len(lastGet.returned) :
            /\ lastGet.returned[i] <= lastGet.time
            /\ lastGet.returned[i] >= lastGet.time - 60 * 1000

\* what the code does keep: nothing from the future, and nothing that was
\* older than the horizon when the symbol last took a snapshot
ReturnedInOrderOfTime ==
    lastGet.symbol # "none" =>
        \A i \in 1..Len(lastGet.returned) :
            /\ lastGet.returned[i] <= lastGet.time
            /\ lastGet.returned[i] >= Last(lastGet.returned) - 60 * 1000
            /\ i > 1 => lastGet.returned[i - 1] <= lastGet.returned[i]

(***************************************************************************)
(* calculateBollingerBands on JavaScript numbers (checked under            *)
(* SpecBands).  The sender's history of a symbol is drawn at the start and  *)
(* grows by one sample at a time; every history is sent to the worker,     *)
(* whose message handler calls the function with the default period and    *)
(* passes priceData only (line 228), puts the payload's currentPrice into  *)
(* the indicators as price (line 254) and updates the symbol's CVD series  *)
(* (line 232).  On each history the function may also be applied by itself *)
(* with the period drawn.                                                  *)
(***************************************************************************)
\* calculateBollingerBands(prices, period = 20)
defaultBollingerPeriod == 20

\* prices as the feed states them: 0.1, 10 and 67123.45; sample i of a history
\* carries the volume PatternVolume(i)
BandPrices == {flDecimal(1, 10), flInt(10), flDecimal(6712345, 100)}
BandPeriods == {2, defaultBollingerPeriod}
InitialLengths == {0, defaultBollingerPeriod - 1}

\* samples added to the history in one behaviour
MaxTicks == 2

NoBands == [present |-> FALSE]

InitBands ==
    /\ InitTracker
    /\ InitStrategy
    /\ InitCvd
    /\ InitService
    /\ InitSocket
    /\ \E symbol \in Symbols, n \in InitialLengths, price \in BandPrices,
          period \in BandPeriods :
          calc = [fn |-> "none", symbol |-> symbol, prices |-> [i \in 1..n |-> price],
                  volumes |-> [i \in 1..n |-> PatternVolume(i)], period |-> period,
                  sent |-> FALSE, ticks |-> 0, seen |-> {}, result |-> NoBands]

\* the branch of calculateBollingerBands a call takes
BandsBranch(prices, period) ==
    IF Len(prices) = 0 THEN "empty"
    ELSE IF Len(prices) < period THEN "short"
    ELSE "full"

\* calculateBollingerBands(prices, period) by itself
ApplyBollingerBands ==
    /\ calc.fn # "calculateBollingerBands"
    /\ calc' = [calc EXCEPT !.fn = "calculateBollingerBands",
                            !.result = calculateBollingerBands(calc.prices, calc.period)]
    /\ UNCHANGED <<trackerVars, strategyVars, cvdVars, serviceVars, socketVars>>

\* lines 248-250 and 254: the bands and the price among the indicators
bollingerIndicators(bollinger, currentPrice) ==
    [upper |-> bollinger.upper, lower |-> bollinger.lower, middle |-> bollinger.middle,
     price |-> currentPrice]

\* updateCVD reads priceData only in currentPrice > prevPrice and
\* currentPrice < prevPrice (lines 133-137 and 150-154): a price is handed to
\* it as the number of different smaller prices in priceData, which keeps the
\* outcome of every comparison
priceOrder(priceData) ==
    LET different == {priceData[j] : j \in 1..Len(priceData)}
    IN  [i \in 1..Len(priceData) |->
            Cardinality({price \in different : ~DLeq(priceData[i], price)})]

\* self.onmessage with { symbol, priceData, volumeData, currentPrice }: the
\* bands of lines 228, 248-250 and 254, and the CVD step of lines 232-234
OnMessageBands(currentPrice) ==
    /\ ~calc.sent
    /\ calc' = [calc EXCEPT
                  !.fn = "onmessage",
                  !.sent = TRUE,
                  !.seen = @ \cup {BandsBranch(calc.prices, defaultBollingerPeriod)},
                  !.result = bollingerIndicators(
                                 calculateBollingerBands(calc.prices, defaultBollingerPeriod),
                                 currentPrice)]
    /\ OnMessage(calc.symbol, priceOrder(calc.prices), calc.volumes)
    /\ UNCHANGED <<priceHistory, volumeHistory, extendedByOne,
                   trackerVars, strategyVars, serviceVars, socketVars>>

\* the sender's history, once sent, takes the next sample
PriceArrives(price) ==
    /\ calc.sent
    /\ calc.ticks < MaxTicks
    /\ calc' = [calc EXCEPT !.fn = "none", !.sent = FALSE,
                            !.prices = Append(@, price),
                            !.volumes = Append(@, PatternVolume(Len(@) + 1)),
                            !.ticks = @ + 1,
                            !.result = NoBands]
    /\ UNCHANGED <<trackerVars, strategyVars, cvdVars, serviceVars, socketVars>>

NextBands ==
    \/ ApplyBollingerBands
    \/ \E currentPrice \in BandPrices : OnMessageBands(currentPrice)
    \/ \E price \in BandPrices : PriceArrives(price)

SpecBands == InitBands /\ [][NextBands]_vars

BollingerApplied == calc.fn \in {"calculateBollingerBands", "onmessage"}

\* the period of the call whose result calc holds
AppliedPeriod == IF calc.fn = "onmessage" THEN defaultBollingerPeriod ELSE calc.period

\* the prices the call averaged
AppliedWindow == SliceLast(calc.prices, AppliedPeriod)

\* x * 2^n, exact
DScale(x, n) == Dyadic(x.s, x.m, x.e + n)

\* exact sum of the elements from..to of numbers, and exact sum of squares
RECURSIVE DSumRange(_, _, _)
DSumRange(s, from, to) ==
    IF from > to THEN DInt(0)
    ELSE IF from = to THEN s[from]
    ELSE LET mid == (from + to) \div 2
             first == DSumRange(s, from, mid)
         IN  IF first.s >= 0 THEN DAdd(first, DSumRange(s, mid + 1, to)) ELSE first

DSum(s) == DSumRange(s, 1, Len(s))
DSumOfSquares(s) == DSum([i \in 1..Len(s) |-> DMul(s[i], s[i])])

\* the larger magnitude of two numbers, and the largest among numbers
DMaxAbs2(x, y) == IF DLeq(DAbs(x), DAbs(y)) THEN DAbs(y) ELSE DAbs(x)

RECURSIVE DMaxAbsRange(_, _, _)
DMaxAbsRange(s, from, to) ==
    IF from > to THEN DInt(0)
    ELSE IF from = to THEN DAbs(s[from])
    ELSE LET mid == (from + to) \div 2
             first == DMaxAbsRange(s, from, mid)
         IN  IF first.s >= 0 THEN DMaxAbs2(first, DMaxAbsRange(s, mid + 1, to)) ELSE first

DMaxAbs(s) == DMaxAbsRange(s, 1, Len(s))

\* floating-point tolerance for results computed from window: 2^-45 of the
\* largest magnitude in it
Tolerance(window) == DScale(DMaxAbs(window), 0 - 45)

\* x is the mean of n numbers of the given sum to within t: |n * x - sum| <= n * t
IsMeanWithin(x, n, sum, t) == DLeq(DAbs(DSub(DMul(n, x), sum)), DMul(n, t))

\* 4 * Q for Q = n * (sum of squares) - (sum)^2; the population standard
\* deviation of the n numbers is sqrt(Q) / n
FourQ(n, sum, sumOfSquares) == DScale(DSub(DMul(n, sumOfSquares), DMul(sum, sum)), 2)

\* w >= 0 is two population standard deviations to within t: the condition
\* |w - 2 * sqrt(Q) / n| <= t is, in squares,
\* (n * max(w - t, 0))^2 <= 4 * Q <= (n * (w + t))^2
IsTwoDeviationsWithin(w, n, fourQ, t) ==
    LET below == IF DLeq(w, t) THEN DInt(0) ELSE DMul(n, DSub(w, t))
        above == DMul(n, DAdd(w, t))
    IN  /\ DLeq(DInt(0), w)
        /\ DLeq(DMul(below, below), fourQ)
        /\ DLeq(fourQ, DMul(above, above))

\* middle is the mean, and upper and lower lie two population standard
\* deviations from it, to within t
AreBandsWithin(bands, n, sum, fourQ, t) ==
    /\ IsMeanWithin(bands.middle, n, sum, t)
    /\ IsTwoDeviationsWithin(DSub(bands.upper, bands.middle), n, fourQ, t)
    /\ IsTwoDeviationsWithin(DSub(bands.middle, bands.lower), n, fourQ, t)

AreBandsOfSumsWithin(bands, n, sum, sumOfSquares, t) ==
    AreBandsWithin(bands, n, sum, FourQ(n, sum, sumOfSquares), t)

\* bands are those of the mean and the population standard deviation of
\* window, to within t
AreBandsOfWindowWithin(bands, window, t) ==
    AreBandsOfSumsWithin(bands, DInt(Len(window)), DSum(window), DSumOfSquares(window), t)

\* C25: with fewer than `period` samples calculateBollingerBands returns the
\* last sample of the sequence as upper, middle and lower, and 0 when the
\* sequence is empty, whatever currentPrice the handler's payload carries;
\* with at least `period` samples middle is the mean of the last `period`
\* prices and upper and lower are middle plus and minus two population
\* standard deviations of those prices, within floating-point tolerance
C25_BollingerBands ==
    BollingerApplied =>
        LET n == Len(calc.prices)
            bands == calc.result
        IN  IF n < AppliedPeriod
            THEN LET latest == IF n = 0 THEN DInt(0) ELSE calc.prices[n]
                 IN  /\ bands.upper = latest
                     /\ bands.middle = latest
                     /\ bands.lower = latest
            ELSE AreBandsOfWindowWithin(bands, AppliedWindow, Tolerance(AppliedWindow))

\* the statement of C25 read exactly: below `period` samples the three bands
\* are the current price (the payload's currentPrice in the handler, the last
\* sample in a call of the function), and from `period` samples on middle is
\* the mean and the bands lie two population standard deviations from it
C25_BandsOfCurrentPriceAndExactMean ==
    BollingerApplied =>
        LET n == Len(calc.prices)
            bands == calc.result
        IN  IF n < AppliedPeriod
            THEN (calc.fn = "onmessage" \/ n > 0) =>
                    LET currentPrice == IF calc.fn = "onmessage" THEN bands.price
                                        ELSE calc.prices[n]
                    IN  /\ bands.upper = currentPrice
                        /\ bands.middle = currentPrice
                        /\ bands.lower = currentPrice
            ELSE AreBandsOfWindowWithin(bands, AppliedWindow, DInt(0))

\* the handler has been sent a history of nineteen equal prices, for which it
\* took the short branch, and then the history with a different twentieth
\* price and a currentPrice that is not that price: the bands lie apart
\* around a middle that is none of the prices
C25_Witness ==
    /\ calc.fn = "onmessage"
    /\ Len(calc.prices) = defaultBollingerPeriod
    /\ calc.seen = {"short", "full"}
    /\ calc.prices[1] # Last(calc.prices)
    /\ calc.result.price # Last(calc.prices)
    /\ calc.result.lower # calc.result.upper
    /\ calc.result.middle # calc.prices[1]
    /\ calc.result.middle # Last(calc.prices)

\* every price of the window is the same number
AllEqual(window) == \A i \in 1..Len(window) : window[i] = window[1]

\* lower <= middle <= upper
BandsOrdered(bands) == DLeq(bands.lower, bands.middle) /\ DLeq(bands.middle, bands.upper)

\* the offsets upper - middle and middle - lower differ by at most t
OffsetsWithin(bands, t) ==
    DLeq(DAbs(DSub(DSub(bands.upper, bands.middle), DSub(bands.middle, bands.lower))), t)

\* the larger magnitude of the outer bands
OuterMagnitude(bands) == DMaxAbs(<<bands.upper, bands.lower>>)

\* C39: for every price sequence calculateBollingerBands returns
\* lower <= middle <= upper, with upper - middle and middle - lower equal up
\* to the rounding of upper and lower (they differ by at most 2^-52 of the
\* larger of the two magnitudes); for an all-equal sequence of at least
\* `period` samples the three bands lie within floating-point tolerance of the
\* sample, and are equal when the mean computed is the sample itself
C39_BandsOrderedAndNearlySymmetric ==
    BollingerApplied =>
        LET bands == calc.result
            sample == AppliedWindow[1]
            t == Tolerance(AppliedWindow)
        IN  /\ BandsOrdered(bands)
            /\ OffsetsWithin(bands, DScale(OuterMagnitude(bands), 0 - 52))
            /\ (Len(calc.prices) >= AppliedPeriod /\ AllEqual(AppliedWindow)) =>
                  /\ DLeq(DAbs(DSub(bands.upper, sample)), t)
                  /\ DLeq(DAbs(DSub(bands.middle, sample)), t)
                  /\ DLeq(DAbs(DSub(bands.lower, sample)), t)
                  /\ bands.middle = sample =>
                        bands.upper = sample /\ bands.lower = sample

\* the statement of C39 read exactly: the bands are ordered, the two offsets
\* are the same number, and an all-equal sequence of at least `period` samples
\* gives three equal bands
C39_BandsOrderedAndSymmetric ==
    BollingerApplied =>
        LET bands == calc.result
        IN  /\ BandsOrdered(bands)
            /\ OffsetsWithin(bands, DInt(0))
            /\ (Len(calc.prices) >= AppliedPeriod /\ AllEqual(AppliedWindow)) =>
                  bands.upper = bands.middle /\ bands.middle = bands.lower

\* twenty samples of 0.1 under the default period: the mean computed is not
\* 0.1, the three bands differ and lie in order around it
C39_Witness ==
    /\ BollingerApplied
    /\ AppliedPeriod = defaultBollingerPeriod
    /\ Len(calc.prices) = defaultBollingerPeriod
    /\ AllEqual(calc.prices)
    /\ calc.prices[1] = flDecimal(1, 10)
    /\ calc.result.middle # calc.prices[1]
    /\ calc.result.lower # calc.result.middle
    /\ calc.result.middle # calc.result.upper

(***************************************************************************)
(* A further claim about the CVD store (checked under SpecCvd).            *)
(***************************************************************************)
\* argument pairs of which the prices or the volumes are fewer than 2
ShortArguments ==
    LET Some == {<< >>, <<10>>, <<10, 12>>, <<12, 10, 11>>}
    IN  {a \in Some \X Some : tooShort(a[1], a[2])}

\* C36: an updateCVD call with fewer than 2 prices or fewer than 2 volumes
\* returns 0 and leaves the store unchanged, also when the symbol has a
\* series whose last value is not 0; for the messages the worker handles and
\* for the same function applied to every store reached
C36_ShortInputReturnsZeroStoreUnchanged ==
    [][/\ \A s \in Symbols :
            (/\ nMessages'[s] = nMessages[s] + 1
             /\ tooShort(priceHistory'[s], volumeHistory'[s]))
                => (lastReturn' = 0 /\ cvdHistory' = cvdHistory)
       /\ \A s \in Symbols, a \in ShortArguments :
            /\ updateCVD(cvdHistory, s, a[1], a[2]) = 0
            /\ updateCVDHistory(cvdHistory, s, a[1], a[2]) = cvdHistory]_vars

\* the latest message, of one sample, came for a symbol whose series ends
\* in a value that is not 0, and 0 was returned
C36_Witness ==
    \E s \in Symbols :
        /\ lastStats.trend # "none"
        /\ lastStats.symbol = s
        /\ Len(priceHistory[s]) = 1
        /\ Has(cvdHistory, s)
        /\ Len(cvdHistory[s]) > 0
        /\ Last(cvdHistory[s]) # 0
        /\ lastReturn = 0

(***************************************************************************)
(* The worker's MACD handed to the evaluators: a price sequence and a      *)
(* config are drawn, calculateMACD is applied, and an evaluator is called  *)
(* on a snapshot that carries its result.                                  *)
(***************************************************************************)
\* price sequences around the 26 samples calculateMACD needs: all 10 with
\* the last two samples below, at or above 10
MacdLengths == {3, 25, 26, 27}
MacdTails == {7, 10, 13}
MacdInputs == {TailedSeq(n, a, b) : n \in MacdLengths, a \in MacdTails, b \in MacdTails}

Lcm(a, b) == (a \div Gcd(a, b)) * b

\* the macd record of the snapshot: the three fractions over their least
\* common denominator, of which the evaluators' integers are the numerators
\* (every comparison the evaluators make is kept)
MacdRecord(result) ==
    LET common == Lcm(Lcm(result.line.den, result.signal.den), result.macd.den)
    IN  [macd |-> result.macd.num * (common \div result.macd.den),
         signal |-> result.signal.num * (common \div result.signal.den),
         line |-> result.line.num * (common \div result.line.den)]

InitPipeline ==
    /\ InitTracker
    /\ InitCvd
    /\ InitService
    /\ InitSocket
    /\ conditions = EmptyObj
    /\ savedSignals = << >>
    /\ evals = [p \in Pairs |-> << >>]
    /\ managerCall = [op |-> "none"]
    /\ \E prices \in MacdInputs : calc = [fn |-> "none", prices |-> prices, period |-> 26]
    /\ \E config \in EvalConfigs, currentPrice \in SnapshotPrices :
          lastEval = [strategy |-> "none", config |-> config,
                      indicators |-> EvalSnapshot(30, 20, <<0, 0>>, <<1, 5>>, 98, TRUE),
                      currentPrice |-> currentPrice]

\* an evaluator called on the snapshot that carries the worker's MACD
EvaluateWithMacd(strategy) ==
    /\ calc.fn = "calculateMACD"
    /\ lastEval.strategy = "none"
    /\ LET indicators == [lastEval.indicators EXCEPT !.macd = MacdRecord(calc.result)]
       IN  lastEval' = [strategy |-> strategy, config |-> lastEval.config,
                        indicators |-> indicators,
                        currentPrice |-> lastEval.currentPrice,
                        result |-> IF strategy = "intraday"
                                   THEN checkIntradayConditions(lastEval.config, indicators,
                                                                lastEval.currentPrice)
                                   ELSE checkScalpingConditions(lastEval.config, indicators,
                                                                lastEval.currentPrice)]
    /\ UNCHANGED <<conditions, savedSignals, evals, managerCall, trackerVars, cvdVars,
                   indicatorVars, serviceVars, socketVars>>

NextPipeline ==
    \/ ApplyMACD
    \/ \E strategy \in Strategies : EvaluateWithMacd(strategy)

SpecPipeline == InitPipeline /\ [][NextPipeline]_vars

\* C33: with the MACD values calculateMACD produces, the evaluators' MACD
\* condition with macdLineAboveSignal on is true exactly when the MACD line
\* is greater than 0, the same with macdLineAboveZero on and off, and is
\* false with fewer than 26 price samples
C33_MacdConditionIsLineAboveZero ==
    (Evaluated /\ lastEval.config.macdLineAboveSignal) =>
        /\ Cond("macd") <=> calc.result.line.num > 0
        /\ Cond("macd") = macdRule([lastEval.config EXCEPT !.macdLineAboveZero = ~@],
                                   lastEval.indicators)
        /\ Len(calc.prices) < 26 => ~Cond("macd")

\* 26 samples or more, the line above 0, macdLineAboveZero off: condition true
C33_Witness ==
    /\ Evaluated
    /\ lastEval.config.macdLineAboveSignal
    /\ ~lastEval.config.macdLineAboveZero
    /\ Len(calc.prices) >= 26
    /\ calc.result.line.num > 0
    /\ Cond("macd")

(***************************************************************************)
(* A further claim about the evaluators (checked under SpecEvaluator).     *)
(***************************************************************************)
\* what the strategy's moving-average check compares
MaComparison ==
    IF lastEval.strategy = "intraday"
    THEN /\ lastEval.currentPrice > lastEval.indicators.ma34
         /\ lastEval.indicators.ma20 > lastEval.indicators.ma34
    ELSE lastEval.indicators.ma8 > lastEval.indicators.ma21

\* C34: a secondary flag has no effect while its primary flag is off: with
\* macdLineAboveSignal off the MACD condition is true whatever
\* macdLineAboveZero is, with cvdSlopePositive off the CVD condition is true
\* whatever cvdAboveZero is, and the moving-average comparison is enforced
\* only when both flags of the strategy's pair are on
C34_SecondaryFlagsNeedPrimary ==
    Evaluated =>
        /\ ~lastEval.config.macdLineAboveSignal =>
              /\ Cond("macd")
              /\ macdRule([lastEval.config EXCEPT !.macdLineAboveZero = ~@],
                          lastEval.indicators)
        /\ ~lastEval.config.cvdSlopePositive =>
              /\ Cond("cvd")
              /\ cvdRule([lastEval.config EXCEPT !.cvdAboveZero = ~@], lastEval.indicators)
        /\ Cond("movingAverages") = (MaPairOn => MaComparison)

\* a scalping evaluation with only one flag of the pair on and the secondary
\* MACD and CVD flags on without their primaries, every comparison failing
C34_Witness ==
    /\ lastEval.strategy = "scalping"
    /\ lastEval.config.useMA8 /\ ~lastEval.config.useMA21
    /\ lastEval.indicators.ma8 < lastEval.indicators.ma21
    /\ ~lastEval.config.macdLineAboveSignal /\ lastEval.config.macdLineAboveZero
    /\ lastEval.indicators.macd.line < 0
    /\ ~lastEval.config.cvdSlopePositive /\ lastEval.config.cvdAboveZero
    /\ lastEval.indicators.cvd < 0
    /\ Cond("movingAverages") /\ Cond("macd") /\ Cond("cvd")

(***************************************************************************)
(* Further claims about the tracker and the logger (checked under          *)
(* SpecTracker).                                                           *)
(***************************************************************************)
\* the vector the tracker keeps as currentConditions of pair p; calls[p] keeps
\* the AND over the vector each call passed
LatestVector(p) == state[p[1]][p[2]].currentConditions

\* C35: isAllGreen(symbol, strategy) is false for a pair never updated and
\* otherwise the AND over the values of the vector the pair's most recent
\* updateConditions call passed; an empty vector counts as all-green and
\* fires a trigger when the pair was not all-green before
C35_IsAllGreenIsLatestAnd ==
    \A p \in Pairs :
        IF Len(calls[p]) = 0
        THEN ~isAllGreen(state, p[1], p[2])
        ELSE /\ isAllGreen(state, p[1], p[2]) = Last(calls[p]).agg
             /\ isAllGreen(state, p[1], p[2])
                  = ({i \in 1..Len(LatestVector(p)) : ~LatestVector(p)[i].value} = {})
             /\ LatestVector(p) = << >> =>
                  /\ isAllGreen(state, p[1], p[2])
                  /\ Last(calls[p]).fired
                        = (Len(calls[p]) = 1 \/ ~calls[p][Len(calls[p]) - 1].agg)

\* what holds of isAllGreen: the same, for every pair whose latest call did not
\* end in the logger's exception
IsAllGreenIsLatestAndUnlessThrown ==
    \A p \in Pairs :
        IF Len(calls[p]) = 0
        THEN ~isAllGreen(state, p[1], p[2])
        ELSE ~Last(calls[p]).threw =>
                /\ isAllGreen(state, p[1], p[2]) = Last(calls[p]).agg
                /\ isAllGreen(state, p[1], p[2])
                     = ({i \in 1..Len(LatestVector(p)) : ~LatestVector(p)[i].value} = {})

\* a pair whose second call passed the empty vector after a vector with a
\* false value, and fired; another pair never updated
C35_Witness ==
    \E p \in Pairs, q \in Pairs :
        /\ Len(calls[p]) = 2
        /\ ~calls[p][1].agg
        /\ LatestVector(p) = << >>
        /\ calls[p][2].fired
        /\ isAllGreen(state, p[1], p[2])
        /\ Len(calls[q]) = 0
        /\ ~isAllGreen(state, q[1], q[2])

(***************************************************************************)
(* FileLogger at its cap (src/unnamed/part_002).  loadLogs() runs when the *)
(* module is loaded and restores what an earlier session's log() stored,   *)
(* which is at most maxLogs entries; the logger then takes direct calls    *)
(* of info/warn/error and the triggers of the strategy tracker.            *)
(***************************************************************************)
LoadedLengths == {0, maxLogs - 1, maxLogs}
StoredEntry(i) == [level |-> "INFO", message |-> [text |-> "stored", n |-> i]]

\* the module is loaded: logs = [] (line 9), then loadLogs() (line 90)
InitLogger ==
    /\ \E n \in LoadedLengths :
           /\ storedLogs = (IF n = 0 THEN NoStoredLogs
                            ELSE StoredLogs([i \in 1..n |-> StoredEntry(i)]))
           /\ logs = [i \in 1..n |-> StoredEntry(i)]
           /\ logged = [loaded |-> n, all |-> [i \in 1..n |-> StoredEntry(i)], steps |-> 0]
    /\ state = EmptyObj
    /\ calls = [p \in Pairs |-> << >>]
    /\ pendingEffects = << >>
    /\ InitStrategy
    /\ InitCvd
    /\ InitIndicators
    /\ InitService
    /\ InitSocket

\* fileLogger.clearLogs()
ClearLogs ==
    /\ LoggerSteps < MaxLoggerSteps
    /\ logs' = << >>
    /\ storedLogs' = NoStoredLogs
    /\ logged' = [loaded |-> 0, all |-> << >>, steps |-> logged.steps + 1]
    /\ UNCHANGED <<state, calls, pendingEffects>>
    /\ UNCHANGED <<strategyVars, cvdVars, indicatorVars, serviceVars, socketVars>>

\* fileLogger.loadLogs(): the stored array, when there is one, replaces the entries
LoadLogs ==
    /\ LoggerSteps < MaxLoggerSteps
    /\ logs' = (IF storedLogs.present THEN storedLogs.entries ELSE logs)
    /\ logged' = (IF storedLogs.present
                  THEN [loaded |-> Len(storedLogs.entries), all |-> storedLogs.entries,
                        steps |-> logged.steps + 1]
                  ELSE [logged EXCEPT !.steps = @ + 1])
    /\ UNCHANGED <<state, calls, pendingEffects, storedLogs>>
    /\ UNCHANGED <<strategyVars, cvdVars, indicatorVars, serviceVars, socketVars>>

\* strategyTracker.updateConditions, whose trigger calls fileLogger.logAllGreen
TrackerLogs(symbol, strategy, conds) ==
    /\ LoggerSteps < MaxLoggerSteps
    /\ UpdateConditions(symbol, strategy, conds)

NextLogger ==
    \/ \E level \in Levels, data \in LogData : LogCall(level, data)
    \/ ClearLogs
    \/ LoadLogs
    \/ \E strategy \in Strategies, conds \in TrackerInputs :
           TrackerLogs("BTCUSDT", strategy, conds)

SpecLogger == InitLogger /\ [][NextLogger]_vars

\* the logger holds the last min(n, maxLogs) of the n entries logged so far, in order
HoldsMostRecent ==
    LET n == Len(logged.all)
        k == IF n <= maxLogs THEN n ELSE maxLogs
    IN  /\ Len(logs) = k
        /\ \A i \in 1..k : logs[i] = logged.all[n - k + i]

\* a step of updateConditions for pair p appends one INFO entry when it is a trigger
\* (all-green now, not all-green before) and leaves the logger alone otherwise
TriggerAppendsOneInfo(p) ==
    LET trigger == Last(calls'[p]).agg /\ ~isAllGreen(state, p[1], p[2])
        kept == Len(logs') - 1
    IN  IF trigger
        THEN /\ Len(logs') = (IF Len(logs) < maxLogs THEN Len(logs) + 1 ELSE maxLogs)
             /\ Last(logs') = [level |-> "INFO", message |-> AllGreenMessage(p[2], p[1])]
             /\ \A i \in 1..kept : logs'[i] = logs[Len(logs) - kept + i]
        ELSE logs' = logs

\* C38: after any sequence of log calls the logger holds at most maxLogs (1000)
\* entries, which are the most recently logged ones in logging order, and each
\* trigger of the edge detector appends exactly one INFO entry
C38_LoggerKeepsMostRecent ==
    /\ [](Len(logs) <= maxLogs /\ HoldsMostRecent)
    /\ [][\A p \in Pairs :
              Len(calls'[p]) = Len(calls[p]) + 1 => TriggerAppendsOneInfo(p)]_vars

\* the logger was full, a trigger was logged and the oldest stored entry is gone
C38_Witness ==
    /\ Len(logged.all) > maxLogs
    /\ Len(logs) = maxLogs
    /\ logs[1] # StoredEntry(1)
    /\ \E strategy \in Strategies :
           /\ Len(calls[<<"BTCUSDT", strategy>>]) > 0
           /\ Last(calls[<<"BTCUSDT", strategy>>]).fired
           /\ Last(logs) = [level |-> "INFO",
                            message |-> AllGreenMessage(strategy, "BTCUSDT")]

(***************************************************************************)
(* BinanceWebSocketService (src/unnamed/part_003): the handlers.           *)
(***************************************************************************)
\* WebSocket objects constructed in one behaviour
MaxSockets == 7

SubscriberKeys == {"BTCUSDT", "all"}
Callbacks == {[name |-> "f", throws |-> FALSE], [name |-> "g", throws |-> FALSE],
              [name |-> "h", throws |-> TRUE]}

\* a ticker message, a kline message and a message without stream and data
Messages == {[stream |-> <<"btcusdt", "ticker">>, data |-> TRUE],
             [stream |-> <<"ethusdt", "kline_1m">>, data |-> TRUE],
             [stream |-> << >>, data |-> FALSE]}

\* the timers left when timer j has fired
Fired(pending, j) == SubSeq(pending, 1, j - 1) \o SubSeq(pending, j + 1, Len(pending))

\* the delays a handleReconnect call added to the pending timers
Scheduled(pending, after) == SubSeq(after, Len(pending) + 1, Len(after))

\* the constructor when new WebSocket throws: the catch block calls handleReconnect
InitSocketThrew ==
    /\ sockets = << >>
    /\ ws = 0
    /\ reconnectAttempts = handleReconnect(0, << >>).reconnectAttempts
    /\ timers = handleReconnect(0, << >>).timers
    /\ subscribers = << >>
    /\ lastDataReceived = {}
    /\ messageReceiveTime = {}
    /\ dataGapTimer = TRUE
    /\ disconnected = FALSE
    /\ attemptsSinceOpen = 0
    /\ unsubscribed = {}
    /\ lastEvent = [kind |-> "connectFailed", scheduled |-> handleReconnect(0, << >>).timers]

InitSocketService ==
    /\ InitTracker
    /\ InitStrategy
    /\ InitCvd
    /\ InitIndicators
    /\ InitService
    /\ (InitSocket \/ InitSocketThrew)

\* ws.onopen of socket i
SocketOpens(i) ==
    /\ sockets[i] = "connecting"
    /\ sockets' = [sockets EXCEPT ![i] = "open"]
    /\ reconnectAttempts' = 0
    /\ attemptsSinceOpen' = 0
    /\ lastEvent' = [kind |-> "open"]
    /\ UNCHANGED <<ws, timers, subscribers, lastDataReceived, messageReceiveTime,
                   dataGapTimer, disconnected, unsubscribed>>
    /\ UNCHANGED <<trackerVars, strategyVars, cvdVars, indicatorVars, serviceVars>>

\* ws.onclose of socket i: the connection failed, was lost, or close() was called
SocketCloses(i) ==
    /\ sockets[i] \in {"connecting", "open", "closing"}
    /\ sockets' = [sockets EXCEPT ![i] = "closed"]
    /\ LET after == handleReconnect(reconnectAttempts, timers)
       IN  /\ reconnectAttempts' = after.reconnectAttempts
           /\ timers' = after.timers
           /\ lastEvent' = [kind |-> "close", scheduled |-> Scheduled(timers, after.timers)]
    /\ UNCHANGED <<ws, subscribers, lastDataReceived, messageReceiveTime, dataGapTimer,
                   disconnected, attemptsSinceOpen, unsubscribed>>
    /\ UNCHANGED <<trackerVars, strategyVars, cvdVars, indicatorVars, serviceVars>>

\* the setTimeout callback of handleReconnect: connect() constructs a WebSocket
ReconnectConnects(j) ==
    /\ Len(sockets) < MaxSockets
    /\ timers' = Fired(timers, j)
    /\ sockets' = Append(sockets, "connecting")
    /\ ws' = Len(sockets) + 1
    /\ attemptsSinceOpen' = attemptsSinceOpen + 1
    /\ lastEvent' = [kind |-> "connect"]
    /\ UNCHANGED <<reconnectAttempts, subscribers, lastDataReceived, messageReceiveTime,
                   dataGapTimer, disconnected, unsubscribed>>
    /\ UNCHANGED <<trackerVars, strategyVars, cvdVars, indicatorVars, serviceVars>>

\* the setTimeout callback of handleReconnect: new WebSocket throws inside connect()
ReconnectThrows(j) ==
    /\ LET after == handleReconnect(reconnectAttempts, Fired(timers, j))
       IN  /\ reconnectAttempts' = after.reconnectAttempts
           /\ timers' = after.timers
           /\ lastEvent' = [kind |-> "connectFailed",
                            scheduled |-> Scheduled(Fired(timers, j), after.timers)]
    /\ attemptsSinceOpen' = attemptsSinceOpen + 1
    /\ UNCHANGED <<ws, sockets, subscribers, lastDataReceived, messageReceiveTime,
                   dataGapTimer, disconnected, unsubscribed>>
    /\ UNCHANGED <<trackerVars, strategyVars, cvdVars, indicatorVars, serviceVars>>

\* ws.onmessage of socket i: handleMessage(message, receiveTime)
Message(i, message) ==
    /\ sockets[i] = "open"
    /\ IF message.stream # << >> /\ message.data
       THEN LET symbol == toUpperCase(message.stream[1])
                done == forEachSubscriber(subscribers, symbol, 1)
            IN  /\ lastDataReceived' = lastDataReceived \cup {symbol}
                /\ messageReceiveTime' = messageReceiveTime \cup {symbol}
                /\ lastEvent' = [kind |-> "message", symbol |-> symbol,
                                 invoked |-> done.invoked, threw |-> done.threw]
       ELSE /\ lastEvent' = [kind |-> "message", symbol |-> "none",
                             invoked |-> << >>, threw |-> FALSE]
            /\ UNCHANGED <<lastDataReceived, messageReceiveTime>>
    /\ UNCHANGED <<ws, sockets, reconnectAttempts, timers, subscribers, dataGapTimer,
                   disconnected, attemptsSinceOpen, unsubscribed>>
    /\ UNCHANGED <<trackerVars, strategyVars, cvdVars, indicatorVars, serviceVars>>

\* subscribe(symbol, callback)
Subscribe(key, callback) ==
    /\ subscribers' = mapSet(subscribers, key, callback)
    /\ lastDataReceived' = lastDataReceived \cup {key}
    /\ unsubscribed' = unsubscribed \ {key}
    /\ lastEvent' = [kind |-> "subscribe", key |-> key, callback |-> callback]
    /\ UNCHANGED <<ws, sockets, reconnectAttempts, timers, messageReceiveTime,
                   dataGapTimer, disconnected, attemptsSinceOpen>>
    /\ UNCHANGED <<trackerVars, strategyVars, cvdVars, indicatorVars, serviceVars>>

\* unsubscribe(symbol)
Unsubscribe(key) ==
    /\ subscribers' = mapDelete(subscribers, key)
    /\ messageReceiveTime' = messageReceiveTime \ {key}
    /\ lastDataReceived' = lastDataReceived \ {key}
    /\ unsubscribed' = unsubscribed \cup {key}
    /\ lastEvent' = [kind |-> "unsubscribe", key |-> key]
    /\ UNCHANGED <<ws, sockets, reconnectAttempts, timers, dataGapTimer, disconnected,
                   attemptsSinceOpen>>
    /\ UNCHANGED <<trackerVars, strategyVars, cvdVars, indicatorVars, serviceVars>>

\* disconnect(): close() on a socket that is not yet closed starts its closing
Disconnect ==
    /\ IF ws # 0
       THEN /\ sockets' = [sockets EXCEPT
                              ![ws] = IF @ \in {"connecting", "open"} THEN "closing" ELSE @]
            /\ ws' = 0
       ELSE UNCHANGED <<sockets, ws>>
    /\ dataGapTimer' = FALSE
    /\ subscribers' = << >>
    /\ messageReceiveTime' = {}
    /\ lastDataReceived' = {}
    /\ disconnected' = TRUE
    /\ lastEvent' = [kind |-> "disconnect"]
    /\ UNCHANGED <<reconnectAttempts, timers, attemptsSinceOpen, unsubscribed>>
    /\ UNCHANGED <<trackerVars, strategyVars, cvdVars, indicatorVars, serviceVars>>

\* the setInterval callback of startGapDetection: it only writes warnings
GapDetection ==
    /\ dataGapTimer
    /\ UNCHANGED vars

NextSocket ==
    \/ \E i \in 1..Len(sockets) :
           \/ SocketOpens(i)
           \/ SocketCloses(i)
           \/ \E message \in Messages : Message(i, message)
    \/ \E j \in 1..Len(timers) :
           \/ ReconnectConnects(j)
           \/ ReconnectThrows(j)
    \/ \E key \in SubscriberKeys :
           \/ \E callback \in Callbacks : Subscribe(key, callback)
           \/ Unsubscribe(key)
    \/ Disconnect
    \/ GapDetection

SpecSocket == InitSocketService /\ [][NextSocket]_vars

\* C32: reconnectAttempts stays between 0 and 5; a close or a failed connect
\* schedules at most one reconnect, the k-th attempt since the last open after
\* 2^k seconds and none once five attempts have failed in a row; an open resets
\* the counter to 0
C32_ReconnectBackoff ==
    /\ reconnectAttempts \in 0..5
    /\ lastEvent.kind = "open" => reconnectAttempts = 0
    /\ lastEvent.kind \in {"close", "connectFailed"} =>
          /\ Len(lastEvent.scheduled) <= 1
          /\ attemptsSinceOpen < 5 =>
                lastEvent.scheduled = <<(2 ^ (attemptsSinceOpen + 1)) * 1000>>
          /\ attemptsSinceOpen >= 5 => lastEvent.scheduled = << >>

\* the fifth attempt in a row has failed and nothing is pending any more
C32_Witness ==
    /\ lastEvent.kind = "close"
    /\ attemptsSinceOpen = 5
    /\ reconnectAttempts = 5
    /\ timers = << >>
    /\ ~disconnected

\* C31: once disconnect() has been called no WebSocket is constructed any more
C31_NoConnectAfterDisconnect ==
    [][disconnected => Len(sockets') = Len(sockets)]_vars

\* how often entry occurs in seq
Occurrences(seq, entry) == Cardinality({k \in 1..Len(seq) : seq[k] = entry})

\* the entries of the subscriber map registered under the symbol or under 'all'
MatchingSubscribers(symbol) ==
    LET matching(entry) == entry.key = symbol \/ entry.key = "all"
    IN  SelectSeq(subscribers, matching)

\* C37: a dispatched message for symbol S has invoked exactly the callbacks
\* registered under S or under 'all', once each; subscribe leaves one callback
\* under its key, the one just given; no callback is invoked under a key that
\* was unsubscribed
C37_DispatchReachesSubscribers ==
    /\ lastEvent.kind = "message" /\ lastEvent.symbol # "none" =>
          /\ \A i \in 1..Len(subscribers) :
                Occurrences(lastEvent.invoked, subscribers[i])
                   = (IF subscribers[i].key \in {lastEvent.symbol, "all"} THEN 1 ELSE 0)
          /\ \A k \in 1..Len(lastEvent.invoked) :
                /\ \E i \in 1..Len(subscribers) : subscribers[i] = lastEvent.invoked[k]
                /\ lastEvent.invoked[k].key \notin unsubscribed
    /\ lastEvent.kind = "subscribe" =>
          {subscribers[i].callback :
              i \in {n \in 1..Len(subscribers) : subscribers[n].key = lastEvent.key}}
             = {lastEvent.callback}

\* what the dispatch does: the matching callbacks are invoked in registration
\* order up to the first one that throws, all of them when none throws
DispatchInvokesMatchingUntilThrow ==
    lastEvent.kind = "message" /\ lastEvent.symbol # "none" =>
        LET matching == MatchingSubscribers(lastEvent.symbol)
            n == Len(lastEvent.invoked)
        IN  /\ n <= Len(matching)
            /\ lastEvent.invoked = SubSeq(matching, 1, n)
            /\ \A k \in 1..(n - 1) : ~matching[k].callback.throws
            /\ IF lastEvent.threw THEN matching[n].callback.throws ELSE n = Len(matching)

====
